---------------------------- MODULE Spec2Model ----------------------------
(***************************************************************************)
(* A model of the permit-extraction core: the record builder               *)
(* (keep/build_structured_json.py) and the evaluator                        *)
(* (benchmark_evaluation.py).                                               *)
(*                                                                          *)
(* The program is a set of pure functions.  A string is a sequence of      *)
(* one-character strings; a Python float is the decimal it denotes, kept   *)
(* as num / 10^scale with trailing zeros removed (exact for the short      *)
(* decimals the bounds admit); Python's None is the record None; an        *)
(* exception that leaves a function is the record Raised(..).              *)
(*                                                                          *)
(* Every specification draws the arguments of a call in its initial state  *)
(* (pc = "call") and has one action per function, which applies it and     *)
(* stores what it returns (pc = "done"); match_owners runs in two steps,   *)
(* one per phase, its local variables in frame.                            *)
(***************************************************************************)
EXTENDS Integers, Sequences, FiniteSets, TLC

VARIABLES
    pc,     \* where the call is: "call", a step of the function, "done"
    fn,     \* the function called
    arg,    \* its arguments
    frame,  \* the local variables of a function that runs in several steps
    ret     \* what it returned

vars == <<pc, fn, arg, frame, ret>>

(***************************************************************************)
(* Bounds of the model.                                                    *)
(***************************************************************************)
\* longest string over NumAlphabet given to the number parsers
MaxNumLen == 4
\* longest body over {"1", ".", ","} given (after an optional sign) to the number parsers
MaxBodyLen == 7

(***************************************************************************)
(* Values.                                                                 *)
(***************************************************************************)
None == [none |-> TRUE]

Raised(e) == [raised |-> e]

IsRaised(v) == DOMAIN v = {"raised"}

RECURSIVE Canon(_, _)
\* the float num / 10^scale, trailing zeros of the fraction removed
Canon(num, scale) ==
    IF scale > 0 /\ num % 10 = 0 THEN Canon(num \div 10, scale - 1)
    ELSE [num |-> num, scale |-> scale]

IsFloat(v) == DOMAIN v = {"num", "scale"}

\* a float written as its canonical decimal
Dec(num, scale) == [num |-> num, scale |-> scale]

\* sign * f for sign in {1, -1}
Times(sign, f) == [num |-> sign * f.num, scale |-> f.scale]

(***************************************************************************)
(* Python's str methods, on sequences of characters.                       *)
(***************************************************************************)
Digits == {"0", "1", "2", "3", "4", "5", "6", "7", "8", "9"}

DigitVal(c) ==
    CASE c = "0" -> 0 [] c = "1" -> 1 [] c = "2" -> 2 [] c = "3" -> 3
      [] c = "4" -> 4 [] c = "5" -> 5 [] c = "6" -> 6 [] c = "7" -> 7
      [] c = "8" -> 8 [] c = "9" -> 9

\* the no-break space U+00A0, one character
NBSP == "\\xa0"

\* the characters str.strip() and str.split() take for whitespace
Whitespace == {" ", NBSP, "\t", "\n", "\r", "\f"}

Range(s) == {s[i] : i \in DOMAIN s}

Count(s, c) == Cardinality({i \in DOMAIN s : s[i] = c})

\* s.replace(c, "")
Remove(s, c) == SelectSeq(s, LAMBDA x : x # c)

\* s.strip(cs): the characters of cs removed from both ends
StripChars(s, cs) ==
    IF \A i \in DOMAIN s : s[i] \in cs THEN <<>>
    ELSE LET lo == CHOOSE i \in DOMAIN s : s[i] \notin cs /\ \A j \in 1..(i - 1) : s[j] \in cs
             hi == CHOOSE i \in DOMAIN s : s[i] \notin cs /\ \A j \in (i + 1)..Len(s) : s[j] \in cs
         IN SubSeq(s, lo, hi)

\* s.strip()
Strip(s) == StripChars(s, Whitespace)

RECURSIVE Split(_, _)
\* s.split(c): the parts between the occurrences of c, empty parts kept
Split(s, c) ==
    IF c \notin Range(s) THEN <<s>>
    ELSE LET i == CHOOSE i \in DOMAIN s : s[i] = c /\ \A j \in 1..(i - 1) : s[j] # c
         IN <<SubSeq(s, 1, i - 1)>> \o Split(SubSeq(s, i + 1, Len(s)), c)

\* s.split(c, 1): the part before the first c and the part after it
Split1(s, c) ==
    LET i == CHOOSE i \in DOMAIN s : s[i] = c /\ \A j \in 1..(i - 1) : s[j] # c
    IN <<SubSeq(s, 1, i - 1), SubSeq(s, i + 1, Len(s))>>

RECURSIVE Join(_)
\* "".join(parts)
Join(parts) == IF parts = <<>> THEN <<>> ELSE Head(parts) \o Join(Tail(parts))

RECURSIVE DigitsValue(_)
\* the number a sequence of digits denotes (0 for the empty sequence)
DigitsValue(ds) ==
    IF ds = <<>> THEN 0
    ELSE 10 * DigitsValue(SubSeq(ds, 1, Len(ds) - 1)) + DigitVal(ds[Len(ds)])

\* float(s) on strings without letters other than placeholders, "_" and
\* exponents: surrounding whitespace, one optional sign, digits with at most
\* one dot and at least one digit; anything else is a ValueError
PyFloat(s) ==
    LET t == Strip(s)
        body == IF t # <<>> /\ t[1] \in {"+", "-"} THEN Tail(t) ELSE t
        ok == /\ Range(body) \subseteq Digits \cup {"."}
              /\ Count(body, ".") <= 1
              /\ Range(body) \cap Digits # {}
        ip == IF "." \in Range(body) THEN Split1(body, ".")[1] ELSE body
        fp == IF "." \in Range(body) THEN Split1(body, ".")[2] ELSE <<>>
        mag == Canon(DigitsValue(ip \o fp), Len(fp))
    IN IF ~ok THEN Raised("ValueError")
       ELSE IF t[1] = "-" THEN Times(-1, mag) ELSE mag

(***************************************************************************)
(* NumberNormalizer.                                                       *)
(***************************************************************************)
\* DotRules with one dot and 1 to 3 trailing digits read as a decimal point
DotRulesDecimal3(body) ==
    LET parts == Split(body, ".")
    IN IF Count(body, ".") = 0 THEN body
       ELSE IF Len(parts) = 2 /\ 1 <= Len(parts[2]) /\ Len(parts[2]) <= 3
            THEN parts[1] \o <<".">> \o parts[2]
       ELSE Join(parts)

\* the string the dot rules hand to float(), for a body without a comma
DotRules(body) ==
    LET parts == Split(body, ".")
    IN IF Count(body, ".") = 0 THEN body
       ELSE IF Len(parts) > 1 /\ \A k \in 2..Len(parts) : Len(parts[k]) = 3
            THEN Join(parts)
       ELSE IF Len(parts) = 2 /\ Len(parts[2]) = 3
            THEN parts[1] \o parts[2]
       ELSE IF Len(parts) = 2 /\ 1 <= Len(parts[2]) /\ Len(parts[2]) <= 2
            THEN parts[1] \o <<".">> \o parts[2]
       ELSE Join(parts)

\* the string the comma rule hands to float()
CommaRule(body) ==
    LET int_part == Split1(body, ",")[1]
        dec == Split1(body, ",")[2]
    IN Remove(int_part, ".") \o <<".">> \o dec

\* lines 49-52 with the ValueError left uncaught
TryFloatUncaught(sign, num_str) ==
    LET f == PyFloat(num_str)
    IN IF IsRaised(f) THEN f ELSE Times(sign, f)

\* try: return sign * float(num_str) / except ValueError: return None
TryFloat(sign, num_str) ==
    LET f == PyFloat(num_str)
    IN IF IsRaised(f) THEN None ELSE Times(sign, f)

parse_eu_number(str) ==
    LET s == Remove(Strip(str), " ")
    IN IF s = <<>> \/ s \in {<<"-">>, <<"-", "-">>} THEN None
       ELSE LET sign == IF s[1] = "-" THEN -1 ELSE 1
                s_body == IF s[1] \in {"+", "-"} THEN Tail(s) ELSE s
            IN IF s_body = <<>> THEN None
               ELSE IF "," \in Range(s_body) THEN TryFloat(sign, CommaRule(s_body))
               ELSE TryFloat(sign, DotRules(s_body))

\* val is a string here; the callers test for None before the call
parse_float(val) ==
    LET v0 == Strip(val)
        \* both replace() calls turn a no-break space into a space
        v1 == [i \in DOMAIN v0 |-> IF v0[i] = NBSP THEN " " ELSE v0[i]]
        v == StripChars(v1, {"\""})
    IN IF v1 = <<>> THEN None
       ELSE IF Count(v, ",") >= 1 THEN TryFloat(1, CommaRule(v))
       ELSE TryFloat(1, DotRules(v))

(***************************************************************************)
(* The number parsers' inputs.                                             *)
(***************************************************************************)
Strings(alphabet, n) == UNION {[1..k -> alphabet] : k \in 0..n}

NumAlphabet == {"0", "1", ".", ",", "-", "+", " ", "x"}

\* the strings of tests/test_parsing.py and of the end-to-end example
NumExamples ==
    { <<"1", "2", "3">>,
      <<"1", ".", "2", "3", "4">>,
      <<"1", "2", ".", "3", "4", "5">>,
      <<"1", ".", "2", "3", "4", ",", "5", "6">>,
      <<"-", "1", ".", "2", "3", "4", ",", "5", "6">>,
      <<"7", ".", "5">>,
      <<"1", ".", "0", "0", "0">>,
      <<"1", ".", "0">>,
      <<"-", "-">>,
      <<>>,
      <<"1", "0", "0", ",", "0", "0">>,
      <<"9", "5", ",", "5", "0">> }

NumInputs ==
    Strings(NumAlphabet, MaxNumLen)
    \cup {sg \o b : sg \in {<<>>, <<"-">>, <<"+">>}, b \in Strings({"1", ".", ","}, MaxBodyLen)}
    \cup NumExamples

InitNumber ==
    /\ pc = "call"
    /\ fn = "none"
    /\ arg \in NumInputs
    /\ frame = None
    /\ ret = None

ParseEuNumber ==
    /\ pc = "call"
    /\ pc' = "done"
    /\ fn' = "parse_eu_number"
    /\ ret' = parse_eu_number(arg)
    /\ UNCHANGED <<arg, frame>>

ParseFloat ==
    /\ pc = "call"
    /\ pc' = "done"
    /\ fn' = "parse_float"
    /\ ret' = parse_float(arg)
    /\ UNCHANGED <<arg, frame>>

NextNumber == ParseEuNumber \/ ParseFloat

SpecNumber == InitNumber /\ [][NextNumber]_vars

(***************************************************************************)
(* C1: parse_eu_number and parse_float are total: for every input string   *)
(* the call returns a float or None and never raises; the empty string,    *)
(* "-", "--", a lone sign and a single-letter placeholder all give None.   *)
(***************************************************************************)
Placeholders == {<<>>, <<"-">>, <<"-", "-">>, <<"+">>, <<"x">>}

C1_Total ==
    (pc = "done" /\ fn \in {"parse_eu_number", "parse_float"}) =>
        /\ ret = None \/ IsFloat(ret)
        /\ arg \in Placeholders => ret = None

\* an unparsable string that reaches float() has been parsed, and gave None
C1_Witness ==
    /\ pc = "done"
    /\ fn = "parse_eu_number"
    /\ arg = <<"1", ",", "x">>
    /\ frame = None
    /\ ret = None

(***************************************************************************)
(* C2: on every string made of an optional leading sign, digits, dots and  *)
(* at most one comma, parse_eu_number (and parse_float, which shares the    *)
(* rules) returns what the ordered rules give:                             *)
(* with a comma, the comma is the decimal separator and the dots before it *)
(* are removed; without comma and dots the digits are taken as they are;   *)
(* with dots only, they are removed when every group after the first has   *)
(* 3 digits, else one dot followed by 1 or 2 digits is the decimal point,  *)
(* else all dots are removed; the sign is reapplied.  The examples of the  *)
(* tests follow.                                                           *)
(***************************************************************************)
\* the decimal <ip>.<fp> of two digit strings, None when it has no digit
RefDecimal(ip, fp) ==
    IF Range(ip) \cup Range(fp) \subseteq Digits /\ Len(ip) + Len(fp) > 0
    THEN Canon(DigitsValue(ip \o fp), Len(fp))
    ELSE None

IsSigned(s) == s # <<>> /\ s[1] \in {"+", "-"}

RefBody(s) == IF IsSigned(s) THEN Tail(s) ELSE s

\* the strings the claim is about
InRefDomain(s) ==
    /\ Range(RefBody(s)) \subseteq Digits \cup {".", ","}
    /\ Count(RefBody(s), ",") <= 1

RefUnsigned(b) ==
    LET groups == Split(b, ".")
    IN IF "," \in Range(b)
       THEN RefDecimal(Remove(Split1(b, ",")[1], "."), Split1(b, ",")[2])
       ELSE IF "." \notin Range(b) THEN RefDecimal(b, <<>>)
       ELSE IF \A k \in 2..Len(groups) : Len(groups[k]) = 3
            THEN RefDecimal(Remove(b, "."), <<>>)
       ELSE IF Len(groups) = 2 /\ Len(groups[2]) \in {1, 2}
            THEN RefDecimal(groups[1], groups[2])
       ELSE RefDecimal(Remove(b, "."), <<>>)

RefNumber(s) ==
    LET v == RefUnsigned(RefBody(s))
    IN IF v = None THEN None
       ELSE IF IsSigned(s) /\ s[1] = "-" THEN Times(-1, v) ELSE v

\* "1.234" -> 1234, "12.345" -> 12345, "1.000" -> 1000, "7.5" -> 7.5,
\* "1.0" -> 1.0, "1.234,56" -> 1234.56, "-1.234,56" -> -1234.56
C2_Examples ==
    /\ arg = <<"1", ".", "2", "3", "4">> => ret = Dec(1234, 0)
    /\ arg = <<"1", "2", ".", "3", "4", "5">> => ret = Dec(12345, 0)
    /\ arg = <<"1", ".", "0", "0", "0">> => ret = Dec(1000, 0)
    /\ arg = <<"7", ".", "5">> => ret = Dec(75, 1)
    /\ arg = <<"1", ".", "0">> => ret = Dec(1, 0)
    /\ arg = <<"1", ".", "2", "3", "4", ",", "5", "6">> => ret = Dec(123456, 2)
    /\ arg = <<"-", "1", ".", "2", "3", "4", ",", "5", "6">> => ret = Dec(-123456, 2)

C2_OrderedRules ==
    (pc = "done" /\ fn \in {"parse_eu_number", "parse_float"} /\ InRefDomain(arg)) =>
        /\ ret = RefNumber(arg)
        /\ C2_Examples

\* the thousands rule has been applied to a signed string with a comma
C2_Witness ==
    /\ pc = "done"
    /\ fn = "parse_eu_number"
    /\ arg = <<"-", "1", ".", "2", "3", "4", ",", "5", "6">>
    /\ ret = Dec(-123456, 2)

(***************************************************************************)
(* StringNormalizer.                                                       *)
(***************************************************************************)
\* the combining marks (category Mn) that the decompositions below produce
ACUTE == "\\u0301"

DIAERESIS == "\\u0308"

Mn == {ACUTE, DIAERESIS}

\* unicodedata.normalize("NFD", c) for the characters that decompose
NFD ==
    ("ά" :> <<"α", ACUTE>>) @@ ("έ" :> <<"ε", ACUTE>>) @@ ("ή" :> <<"η", ACUTE>>)
    @@ ("ί" :> <<"ι", ACUTE>>) @@ ("ό" :> <<"ο", ACUTE>>) @@ ("ύ" :> <<"υ", ACUTE>>)
    @@ ("ώ" :> <<"ω", ACUTE>>) @@ ("Ά" :> <<"Α", ACUTE>>) @@ ("Έ" :> <<"Ε", ACUTE>>)
    @@ ("Ή" :> <<"Η", ACUTE>>) @@ ("Ί" :> <<"Ι", ACUTE>>) @@ ("Ό" :> <<"Ο", ACUTE>>)
    @@ ("Ύ" :> <<"Υ", ACUTE>>) @@ ("Ώ" :> <<"Ω", ACUTE>>) @@ ("ϊ" :> <<"ι", DIAERESIS>>)
    @@ ("ΐ" :> <<"ι", DIAERESIS, ACUTE>>) @@ ("é" :> <<"e", ACUTE>>)

\* c for each character, f[c] where f maps it
MapChars(s, f) == Join([i \in DOMAIN s |-> IF s[i] \in DOMAIN f THEN f[s[i]] ELSE <<s[i]>>])

strip_accents(s) == SelectSeq(MapChars(s, NFD), LAMBDA c : c \notin Mn)

LowerLetters ==
    << "a", "b", "c", "d", "e", "f", "g", "h", "i", "j", "k", "l", "m",
       "n", "o", "p", "q", "r", "s", "t", "u", "v", "w", "x", "y", "z",
       "α", "β", "γ", "δ", "ε", "ζ", "η", "θ", "ι", "κ", "λ", "μ",
       "ν", "ξ", "ο", "π", "ρ", "σ", "ς", "τ", "υ", "φ", "χ", "ψ", "ω",
       "ά", "έ", "ή", "ί", "ό", "ύ", "ώ", "ϊ", "é" >>

UpperLetters ==
    << "A", "B", "C", "D", "E", "F", "G", "H", "I", "J", "K", "L", "M",
       "N", "O", "P", "Q", "R", "S", "T", "U", "V", "W", "X", "Y", "Z",
       "Α", "Β", "Γ", "Δ", "Ε", "Ζ", "Η", "Θ", "Ι", "Κ", "Λ", "Μ",
       "Ν", "Ξ", "Ο", "Π", "Ρ", "Σ", "Σ", "Τ", "Υ", "Φ", "Χ", "Ψ", "Ω",
       "Ά", "Έ", "Ή", "Ί", "Ό", "Ύ", "Ώ", "Ϊ", "É" >>

\* str.upper(), character by character
ToUpper == [c \in Range(LowerLetters) |->
               <<UpperLetters[CHOOSE i \in DOMAIN LowerLetters : LowerLetters[i] = c]>>]

\* str.lower() of one character
ToLower == [c \in Range(UpperLetters) |->
               LowerLetters[CHOOSE i \in DOMAIN UpperLetters :
                   UpperLetters[i] = c /\ \A j \in 1..(i - 1) : UpperLetters[j] # c]]

Upper(s) == MapChars(s, ToUpper)

\* the characters the final-sigma rule of str.lower() looks through
CaseIgnorable == {".", "'", ":", "^", ACUTE, DIAERESIS}

\* a capital sigma at position i ends a word: a letter stands before it and
\* none after it, characters of CaseIgnorable aside
FinalSigma(s, i) ==
    LET Cased(c) == c \in Range(LowerLetters) \cup Range(UpperLetters)
    IN /\ \E j \in 1..(i - 1) :
              Cased(s[j]) /\ \A k \in (j + 1)..(i - 1) : s[k] \in CaseIgnorable
       /\ ~ \E j \in (i + 1)..Len(s) :
              Cased(s[j]) /\ \A k \in (i + 1)..(j - 1) : s[k] \in CaseIgnorable

\* str.lower()
Lower(s) ==
    [i \in DOMAIN s |->
        IF s[i] = "Σ" /\ FinalSigma(s, i) THEN "ς"
        ELSE IF s[i] \in DOMAIN ToLower THEN ToLower[s[i]]
        ELSE s[i]]

mapping ==
    ("Α" :> <<"A">>) @@ ("Β" :> <<"V">>) @@ ("Γ" :> <<"G">>) @@ ("Δ" :> <<"D">>)
    @@ ("Ε" :> <<"E">>) @@ ("Ζ" :> <<"Z">>) @@ ("Η" :> <<"I">>) @@ ("Θ" :> <<"T", "H">>)
    @@ ("Ι" :> <<"I">>) @@ ("Κ" :> <<"K">>) @@ ("Λ" :> <<"L">>) @@ ("Μ" :> <<"M">>)
    @@ ("Ν" :> <<"N">>) @@ ("Ξ" :> <<"X">>) @@ ("Ο" :> <<"O">>) @@ ("Π" :> <<"P">>)
    @@ ("Ρ" :> <<"R">>) @@ ("Σ" :> <<"S">>) @@ ("Τ" :> <<"T">>) @@ ("Υ" :> <<"Y">>)
    @@ ("Φ" :> <<"F">>) @@ ("Χ" :> <<"C", "H">>) @@ ("Ψ" :> <<"P", "S">>) @@ ("Ω" :> <<"O">>)
    @@ ("Ϲ" :> <<"S">>) @@ ("Ά" :> <<"A">>) @@ ("Έ" :> <<"E">>) @@ ("Ί" :> <<"I">>)
    @@ ("Ή" :> <<"I">>) @@ ("Ό" :> <<"O">>) @@ ("Ύ" :> <<"Y">>) @@ ("Ώ" :> <<"O">>)
    @@ ("α" :> <<"A">>) @@ ("β" :> <<"V">>) @@ ("γ" :> <<"G">>) @@ ("δ" :> <<"D">>)
    @@ ("ε" :> <<"E">>) @@ ("ζ" :> <<"Z">>) @@ ("η" :> <<"I">>) @@ ("θ" :> <<"T", "H">>)
    @@ ("ι" :> <<"I">>) @@ ("κ" :> <<"K">>) @@ ("λ" :> <<"L">>) @@ ("μ" :> <<"M">>)
    @@ ("ν" :> <<"N">>) @@ ("ξ" :> <<"X">>) @@ ("ο" :> <<"O">>) @@ ("π" :> <<"P">>)
    @@ ("ρ" :> <<"R">>) @@ ("σ" :> <<"S">>) @@ ("ς" :> <<"S">>) @@ ("τ" :> <<"T">>)
    @@ ("υ" :> <<"Y">>) @@ ("φ" :> <<"F">>) @@ ("χ" :> <<"C", "H">>) @@ ("ψ" :> <<"P", "S">>)
    @@ ("ω" :> <<"O">>)

_greek_to_ascii(s) == MapChars(s, mapping)

CORPORATE_TOKENS ==
    { <<"A", "E">>,
      <<"Α", "Ε">>,
      <<"Α", ".", "Ε", ".">>,
      <<"Ε", "Ε">>,
      <<"Ε", ".", "Ε", ".">>,
      <<"Ο", "Ε">>,
      <<"Ο", ".", "Ε", ".">>,
      <<"Ι", "Κ", "Ε">>,
      <<"Ι", ".", "Κ", ".", "Ε", ".">>,
      <<"Μ", "Ο", "Ν", "Ο", "Π", "Ρ", "Ο", "Σ", "Ω", "Π", "Η">>,
      <<"Α", "Ν", "Ω", "Ν", "Υ", "Μ", "Η">>,
      <<"Ε", "Τ", "Α", "Ι", "Ρ", "Ε", "Ι", "Α">>,
      <<"Μ", "Ο", "Ν", "Ο", "Π", "Ρ", "Ο", "Σ", "Ω", "Π", "Η", "Α", "Ε">>,
      <<"Μ", "Ο", "Ν", "Ο", "Π", "Ρ", "Ο", "Σ", "Ω", "Π", "Η", "Α", ".", "Ε", ".">>,
      <<"L", "L", "C">>,
      <<"P", ".", "C", ".">>,
      <<"P", "C">>,
      <<"I", "K", "E">> }

RECURSIVE SubParens(_)
\* re.sub(r"\([^)]*\)", " ", s)
SubParens(s) ==
    IF "(" \notin Range(s) THEN s
    ELSE LET i == CHOOSE i \in DOMAIN s : s[i] = "(" /\ \A k \in 1..(i - 1) : s[k] # "("
             closing == {j \in (i + 1)..Len(s) : s[j] = ")"}
             j == CHOOSE j \in closing : \A k \in closing : j <= k
         IN IF closing = {} THEN s
            ELSE SubSeq(s, 1, i - 1) \o <<" ">> \o SubParens(SubSeq(s, j + 1, Len(s)))

\* the grave accent U+0060, one character
GRAVE == "\\x60"

Punctuation == {".", ",", ";", "&", ":", "'", GRAVE, "-"}

\* re.sub of line 91: each run of punctuation becomes one space
SubPunctuation(s) ==
    LET kept == {i \in DOMAIN s : s[i] \notin Punctuation \/ i = 1 \/ s[i - 1] \notin Punctuation}
        F[i \in 0..Len(s)] ==
            IF i = 0 THEN <<>>
            ELSE IF i \notin kept THEN F[i - 1]
            ELSE F[i - 1] \o <<IF s[i] \in Punctuation THEN " " ELSE s[i]>>
    IN F[Len(s)]

\* s.replace(c, " ")
ToSpace(s, c) == [i \in DOMAIN s |-> IF s[i] = c THEN " " ELSE s[i]]

\* the horizontal ellipsis U+2026, one character
ELLIPSIS == "\\u2026"

RECURSIVE Words(_)
\* s.split(): the maximal runs without whitespace
Words(s) ==
    LET t == Strip(s)
        ws == {i \in DOMAIN t : t[i] \in Whitespace}
        i == CHOOSE i \in ws : \A k \in ws : i <= k
    IN IF t = <<>> THEN <<>>
       ELSE IF ws = {} THEN <<t>>
       ELSE <<SubSeq(t, 1, i - 1)>> \o Words(SubSeq(t, i + 1, Len(t)))

RECURSIVE JoinWith(_, _)
\* sep.join(parts)
JoinWith(parts, sep) ==
    IF parts = <<>> THEN <<>>
    ELSE IF Len(parts) = 1 THEN parts[1]
    ELSE parts[1] \o sep \o JoinWith(Tail(parts), sep)

\* the tokens line 99 keeps
DropCorporate(tokens) == SelectSeq(tokens, LAMBDA t : t # <<>> /\ t \notin CORPORATE_TOKENS)

\* normalize_owner_component with the corporate tokens dropped before the
\* transliteration instead of after it
normalize_filter_first(str) ==
    IF str = <<>> THEN <<>>
    ELSE LET s7 == Upper(ToSpace(SubPunctuation(ToSpace(SubParens(
                       strip_accents(ToSpace(str, NBSP))), ELLIPSIS)), "/"))
         IN JoinWith([i \in DOMAIN DropCorporate(Words(s7)) |->
                         _greek_to_ascii(DropCorporate(Words(s7))[i])], <<" ">>)

normalize_owner_component(str) ==
    IF str = <<>> THEN <<>>
    ELSE LET s1 == ToSpace(str, NBSP)
             s2 == strip_accents(s1)
             s3 == SubParens(s2)
             s4 == ToSpace(s3, ELLIPSIS)
             s5 == SubPunctuation(s4)
             s6 == ToSpace(s5, "/")
             s7 == Upper(s6)
             s8 == _greek_to_ascii(s7)
         IN JoinWith(DropCorporate(Words(s8)), <<" ">>)

(***************************************************************************)
(* The normalizer's inputs.                                                *)
(***************************************************************************)
\* longest string over NormAlphabet given to the normalizer
MaxNameLen == 4
\* most words of NormVocabulary in an input of the normalizer
MaxWords == 2

\* Latin and Greek capitals of the corporate markers, an accented Greek
\* small letter, a Latin small letter, punctuation, parentheses, a space
NormAlphabet == {"A", "E", "Α", "Ε", "ά", "p", ".", "(", ")", " "}

\* 'Α.Ε. Παράδειγμα (REG CODE)' of test_owner_normalization
TestOwner ==
    <<"Α", ".", "Ε", ".", " ", "Π", "α", "ρ", "ά", "δ", "ε", "ι", "γ", "μ", "α", " ", "(", "R", "E", "G", " ", "C", "O", "D", "E", ")">>

Paradeigma == <<"Π", "α", "ρ", "ά", "δ", "ε", "ι", "γ", "μ", "α">>

NormVocabulary ==
    CORPORATE_TOKENS
    \cup { Paradeigma,
           <<"Π", "Α", "Π", "Π", "Α", "Σ">>,
           <<"(", "R", "E", "G", " ", "C", "O", "D", "E", ")">>,
           <<"Γ", "/", "Δ">>,
           <<"x">> }

WordLists(vocabulary, n) == UNION {[1..k -> vocabulary] : k \in 0..n}

NormInputs ==
    Strings(NormAlphabet, MaxNameLen)
    \cup {JoinWith(ws, <<" ">>) : ws \in WordLists(NormVocabulary, MaxWords)}
    \cup {TestOwner}

InitNormalize ==
    /\ pc = "call"
    /\ fn = "none"
    /\ arg \in NormInputs
    /\ frame = None
    /\ ret = None

Normalize ==
    /\ pc = "call"
    /\ pc' = "done"
    /\ fn' = "normalize_owner_component"
    /\ ret' = normalize_owner_component(arg)
    /\ UNCHANGED <<arg, frame>>

\* the function applied to its own result
NormalizeAgain ==
    /\ pc = "done"
    /\ pc' = "again"
    /\ arg' = ret
    /\ ret' = normalize_owner_component(ret)
    /\ UNCHANGED <<fn, frame>>

NextNormalize == Normalize \/ NormalizeAgain

SpecNormalize == InitNormalize /\ [][NextNormalize]_vars

(***************************************************************************)
(* C3: normalize_owner_component is idempotent: applied to its own result  *)
(* it returns that result unchanged.                                       *)
(***************************************************************************)
C3_Idempotent == pc = "again" => ret = arg

\* the second call has run on a result that the first call had to change
C3_Witness ==
    /\ pc = "again"
    /\ arg = <<"A", " ", "E", " ", "P", "A", "R", "A", "D", "E", "I", "G", "M", "A">>
    /\ ret = arg

(***************************************************************************)
(* C4: corporate tokens are always removed: a whitespace-delimited token   *)
(* of the input that is one of CORPORATE_TOKENS (in any listed spelling)   *)
(* contributes nothing to the result, so the result is that of the input   *)
(* without these tokens; and a parenthesised substring contributes         *)
(* nothing, so the result is that of the input without them.               *)
(***************************************************************************)
WithoutCorporate(s) ==
    JoinWith(SelectSeq(Words(s), LAMBDA w : w \notin CORPORATE_TOKENS), <<" ">>)

C4_CorporateRemoved ==
    (pc = "done" /\ fn = "normalize_owner_component") =>
        /\ ret = normalize_owner_component(WithoutCorporate(arg))
        /\ ret = normalize_owner_component(SubParens(strip_accents(arg)))

(***************************************************************************)
(* C5: the result keeps Greek letters Greek: for a Greek word of the input *)
(* the result contains its accent-stripped upper-case Greek form; for the  *)
(* test's input it contains the Greek PARADEIGMA and does not contain the  *)
(* Latin "AE".                                                             *)
(***************************************************************************)
Contains(s, sub) == \E i \in 0..(Len(s) - Len(sub)) : SubSeq(s, i + 1, i + Len(sub)) = sub

C5_GreekKept ==
    (pc = "done" /\ fn = "normalize_owner_component") =>
        /\ Contains(arg, Paradeigma) => Contains(ret, Upper(strip_accents(Paradeigma)))
        /\ arg = TestOwner => ~Contains(ret, <<"A", "E">>)

(***************************************************************************)
(* MatchingEngine: registry-code equivalence.                              *)
(***************************************************************************)
RECURSIVE LStrip(_, _)
\* s.lstrip(c)
LStrip(s, c) == IF s # <<>> /\ s[1] = c THEN LStrip(Tail(s), c) ELSE s

\* equivalent_kaek with every leading zero tolerated
equivalent_kaek_lstrip(a, b) ==
    IF a = b THEN TRUE
    ELSE IF "/" \in Range(a) \/ "/" \in Range(b) THEN FALSE
    ELSE LStrip(a, "0") = LStrip(b, "0")

\* s.startswith(c)
StartsWith(s, c) == s # <<>> /\ s[1] = c

equivalent_kaek(a, b) ==
    IF a = b THEN TRUE
    ELSE IF "/" \in Range(a) \/ "/" \in Range(b) THEN FALSE
    ELSE IF StartsWith(a, "0") /\ Tail(a) = b THEN TRUE
    ELSE IF StartsWith(b, "0") /\ Tail(b) = a THEN TRUE
    ELSE FALSE

\* longest code given to equivalent_kaek
MaxCodeLen == 4

CodeAlphabet == {"0", "1", "/"}

\* the codes of test_equivalent_kaek_leading_zero
Kaek11 == <<"5", "0", "0", "9", "7", "3", "5", "0", "0", "0", "3">>

Kaek12 == <<"0", "5", "0", "0", "9", "7", "3", "5", "0", "0", "0", "3">>

Kaek13 == <<"0", "0", "5", "0", "0", "9", "7", "3", "5", "0", "0", "0", "3">>

CodeInputs ==
    (Strings(CodeAlphabet, MaxCodeLen) \X Strings(CodeAlphabet, MaxCodeLen))
    \cup ({Kaek11, Kaek12, Kaek13} \X {Kaek11, Kaek12, Kaek13})

InitCode ==
    /\ pc = "call"
    /\ fn = "none"
    /\ arg \in CodeInputs
    /\ frame = None
    /\ ret = None

EquivalentKaek ==
    /\ pc = "call"
    /\ pc' = "done"
    /\ fn' = "equivalent_kaek"
    /\ ret' = equivalent_kaek(arg[1], arg[2])
    /\ UNCHANGED <<arg, frame>>

NextCode == EquivalentKaek

SpecCode == InitCode /\ [][NextCode]_vars

(***************************************************************************)
(* C6: equivalent_kaek(a, b) is true exactly when a = b, or neither has a  *)
(* "/" and one of them is "0" followed by the other.  So one missing       *)
(* leading zero is tolerated in either direction, two missing leading      *)
(* zeros are not, a zero missing after a non-zero character is not, and    *)
(* two different codes of which one has a "/" are never equivalent.        *)
(***************************************************************************)
NoSlash(s) == \A i \in DOMAIN s : s[i] # "/"

\* b is a with the character at position i, a zero, taken out
ZeroDroppedAt(a, b, i) ==
    /\ a[i] = "0"
    /\ b = SubSeq(a, 1, i - 1) \o SubSeq(a, i + 1, Len(a))

C6_CodeEquivalence ==
    (pc = "done" /\ fn = "equivalent_kaek") =>
        LET a == arg[1]
            b == arg[2]
        IN /\ ret = (\/ a = b
                     \/ NoSlash(a) /\ NoSlash(b) /\ (a = <<"0">> \o b \/ b = <<"0">> \o a))
           /\ (NoSlash(a) /\ NoSlash(b) /\ a = <<"0">> \o b) => ret
           /\ (a = <<"0", "0">> \o b \/ b = <<"0", "0">> \o a) => ~ret
           /\ (\E i \in DOMAIN a : /\ ZeroDroppedAt(a, b, i)
                                   /\ \E k \in 1..(i - 1) : a[k] # "0") => ~ret
           /\ (a # b /\ ~(NoSlash(a) /\ NoSlash(b))) => ~ret
           /\ (a = Kaek12 /\ b = Kaek11) => ret
           /\ (a = Kaek13 /\ b = Kaek11) => ~ret

\* one missing leading zero has been tolerated
C6_Witness ==
    /\ pc = "done"
    /\ fn = "equivalent_kaek"
    /\ arg = <<Kaek12, Kaek11>>
    /\ ret = TRUE

\* two missing leading zeros have been refused
C6_WitnessTwoZeros ==
    /\ pc = "done"
    /\ fn = "equivalent_kaek"
    /\ arg = <<Kaek13, Kaek11>>
    /\ ret = FALSE

(***************************************************************************)
(* CoverageTableMapper: orientation.                                       *)
(***************************************************************************)
\* "Εμβ. κάλυψης κτιρίου"
KeyFootprint ==
    << "Ε", "μ", "β", ".", " ", "κ", "ά", "λ", "υ", "ψ", "η", "ς", " ", "κ",
       "τ", "ι", "ρ", "ί", "ο", "υ" >>

\* "Εμβ. δόμησης κτιρίου"
KeyFloorArea ==
    << "Ε", "μ", "β", ".", " ", "δ", "ό", "μ", "η", "σ", "η", "ς", " ", "κ",
       "τ", "ι", "ρ", "ί", "ο", "υ" >>

\* "Εμβ. ακάλυπτου χώρου οικοπέδου"
KeyUncovered ==
    << "Ε", "μ", "β", ".", " ", "α", "κ", "ά", "λ", "υ", "π", "τ", "ο", "υ",
       " ", "χ", "ώ", "ρ", "ο", "υ", " ", "ο", "ι", "κ", "ο", "π", "έ", "δ",
       "ο", "υ" >>

\* "Όγκος κτιρίου (άνω εδάφους)"
KeyVolume ==
    << "Ό", "γ", "κ", "ο", "ς", " ", "κ", "τ", "ι", "ρ", "ί", "ο", "υ", " ",
       "(", "ά", "ν", "ω", " ", "ε", "δ", "ά", "φ", "ο", "υ", "ς", ")" >>

\* "Μέγιστο ύψος κτιρίου"
KeyHeight ==
    << "Μ", "έ", "γ", "ι", "σ", "τ", "ο", " ", "ύ", "ψ", "ο", "ς", " ", "κ",
       "τ", "ι", "ρ", "ί", "ο", "υ" >>

\* "Αριθμός Ορόφων"
KeyFloors ==
    << "Α", "ρ", "ι", "θ", "μ", "ό", "ς", " ", "Ο", "ρ", "ό", "φ", "ω", "ν" >>

\* "Αριθμός Θέσεων Στάθμευσης"
KeyParking ==
    << "Α", "ρ", "ι", "θ", "μ", "ό", "ς", " ", "Θ", "έ", "σ", "ε", "ω", "ν",
       " ", "Σ", "τ", "ά", "θ", "μ", "ε", "υ", "σ", "η", "ς" >>

COVERAGE_KEYS ==
    <<KeyFootprint, KeyFloorArea, KeyUncovered, KeyVolume,
      KeyHeight, KeyFloors, KeyParking>>

\* "ΥΦΙΣΤΑΜΕΝΑ"
ColExisting ==
    << "Υ", "Φ", "Ι", "Σ", "Τ", "Α", "Μ", "Ε", "Ν", "Α" >>

\* "ΝΟΜΙΜΟΠΟΙΟΥΜΕΝΑ"
ColLegalized ==
    << "Ν", "Ο", "Μ", "Ι", "Μ", "Ο", "Π", "Ο", "Ι", "Ο", "Υ", "Μ", "Ε", "Ν",
       "Α" >>

\* "ΠΡΑΓΜΑΤΟΠΟΙΟΥΜΕΝΑ"
ColRealized ==
    << "Π", "Ρ", "Α", "Γ", "Μ", "Α", "Τ", "Ο", "Π", "Ο", "Ι", "Ο", "Υ", "Μ",
       "Ε", "Ν", "Α" >>

\* "ΣΥΝΟΛΟ"
ColTotal ==
    << "Σ", "Υ", "Ν", "Ο", "Λ", "Ο" >>

cols == <<ColExisting, ColLegalized, ColRealized, ColTotal>>

\* Fill without the 0.0 default
FillNone(vals, idx) == vals[idx]

\* the value of result[c][key] for the column at position idx
Fill(vals, idx) == IF vals[idx] # None THEN vals[idx] ELSE Dec(0, 0)

\* cov_map.get(key, [None, None, None, None])
GetVals(cov_map, key) ==
    IF key \in DOMAIN cov_map THEN cov_map[key] ELSE <<None, None, None, None>>

RECURSIVE OrientKeys(_, _, _)
\* result after the loop over the first n keys of COVERAGE_KEYS
OrientKeys(cov_map, result, n) ==
    IF n = 0 THEN result
    ELSE LET prev == OrientKeys(cov_map, result, n - 1)
             key == COVERAGE_KEYS[n]
             vals == GetVals(cov_map, key)
         IN [c \in DOMAIN prev |->
                LET idx == CHOOSE i \in DOMAIN cols : cols[i] = c
                IN (key :> Fill(vals, idx)) @@ prev[c]]

orient_coverage(cov_map) ==
    LET result == [c \in Range(cols) |-> <<>>]
    IN IF \E key \in Range(COVERAGE_KEYS) : Len(GetVals(cov_map, key)) < Len(cols)
       THEN Raised("IndexError")
       ELSE OrientKeys(cov_map, result, Len(COVERAGE_KEYS))

\* most entries of a coverage map given to orient_coverage
MaxCovEntries == 2

\* a label that is no coverage key
UnknownLabel == <<"x">>

CovLabels == Range(COVERAGE_KEYS) \cup {UnknownLabel}

\* [1.0, 2.0, None, 4.0] of test_orient_coverage_structure
TestCovList == <<Dec(1, 0), Dec(2, 0), None, Dec(4, 0)>>

\* lists of 4 optional floats, as parse_docling_coverage builds them
CovLists ==
    [1..4 -> {None, Dec(955, 1)}]
    \cup { TestCovList,
           <<Dec(100, 0), Dec(100, 0), Dec(955, 1), Dec(955, 1)>>,
           <<Dec(0, 0), None, Dec(-15, 1), Dec(0, 0)>> }

CovMaps ==
    UNION {[ks -> CovLists] : ks \in {S \in SUBSET CovLabels : Cardinality(S) <= MaxCovEntries}}

InitCoverage ==
    /\ pc = "call"
    /\ fn = "none"
    /\ arg \in CovMaps
    /\ frame = None
    /\ ret = None

OrientCoverage ==
    /\ pc = "call"
    /\ pc' = "done"
    /\ fn' = "orient_coverage"
    /\ ret' = orient_coverage(arg)
    /\ UNCHANGED <<arg, frame>>

NextCoverage == OrientCoverage

SpecCoverage == InitCoverage /\ [][NextCoverage]_vars

(***************************************************************************)
(* C7: orient_coverage returns, for every map from labels to lists of 4    *)
(* optional floats, however sparse (the empty map and maps with unknown    *)
(* labels included), exactly the 4 group keys and under each exactly the   *)
(* 7 metric keys; the cell (group i, metric m) is the i-th value of the    *)
(* entry for m when that value is present, and 0.0 when the entry or the   *)
(* value is absent.                                                        *)
(***************************************************************************)
C7_GridShape ==
    (pc = "done" /\ fn = "orient_coverage") =>
        /\ DOMAIN ret = {ColExisting, ColLegalized, ColRealized, ColTotal}
        /\ Cardinality(DOMAIN ret) = 4
        /\ \A g \in DOMAIN ret :
              /\ DOMAIN ret[g] = { KeyFootprint, KeyFloorArea, KeyUncovered, KeyVolume,
                                   KeyHeight, KeyFloors, KeyParking }
              /\ Cardinality(DOMAIN ret[g]) = 7
        /\ \A i \in 1..4 : \A m \in 1..7 :
              ret[cols[i]][COVERAGE_KEYS[m]] =
                  IF COVERAGE_KEYS[m] \in DOMAIN arg /\ arg[COVERAGE_KEYS[m]][i] # None
                  THEN arg[COVERAGE_KEYS[m]][i]
                  ELSE Dec(0, 0)

\* the map of test_orient_coverage_structure has been oriented
C7_Witness ==
    /\ pc = "done"
    /\ fn = "orient_coverage"
    /\ arg = (KeyFootprint :> TestCovList)
    /\ ret[ColExisting][KeyFootprint] = Dec(1, 0)
    /\ ret[ColRealized][KeyFootprint] = Dec(0, 0)
    /\ ret[ColTotal][KeyParking] = Dec(0, 0)

(***************************************************************************)
(* MatchingEngine: owner matching.                                         *)
(***************************************************************************)
Owner(surname, name) == [surname |-> surname, name |-> name]

key(o) == <<normalize_owner_component(o.surname), normalize_owner_component(o.name)>>

\* the set of the two components, not of their tokens
signature_fields(o) == {key(o)[1], key(o)[2]} \ {<<>>}

\* frozenset of the tokens of both components
signature(o) == Range(Words(key(o)[1] \o <<" ">> \o key(o)[2]))

\* the least element of a non-empty set of numbers
Min(S) == CHOOSE x \in S : \A y \in S : x <= y

\* Without that filters nothing: the matched owners stay in the lists
WithoutNothing(list, dropped) == list

\* the elements of list whose positions are not in dropped, in order
Without(list, dropped) ==
    LET kept == SelectSeq([i \in DOMAIN list |-> <<i, list[i]>>],
                          LAMBDA p : p[1] \notin dropped)
    IN [k \in DOMAIN kept |-> kept[k][2]]

RECURSIVE GreedyReuse(_, _, _, _)
\* Greedy without the test "if j in used_pred: continue"
GreedyReuse(gk, pk, ok, n) ==
    IF n = 0 THEN [used_pred |-> {}, matched |-> {}]
    ELSE LET prev == GreedyReuse(gk, pk, ok, n - 1)
             found == {j \in DOMAIN pk : pk[j] = gk[n] /\ ok[n]}
         IN IF found = {} THEN prev
            ELSE [used_pred |-> prev.used_pred \cup {Min(found)},
                  matched |-> prev.matched \cup {n}]

RECURSIVE Greedy(_, _, _, _)
\* the loops of lines 129-138 and 143-152 after the first n ground-truth
\* owners: gk and pk are what the loop compares (keys, signatures), ok[i]
\* the extra condition on ground-truth owner i; used_pred are the
\* positions of the predicted owners taken, matched those of the
\* ground-truth owners set to None
Greedy(gk, pk, ok, n) ==
    IF n = 0 THEN [used_pred |-> {}, matched |-> {}]
    ELSE LET prev == Greedy(gk, pk, ok, n - 1)
             found == {j \in DOMAIN pk : j \notin prev.used_pred /\ pk[j] = gk[n] /\ ok[n]}
         IN IF found = {} THEN prev
            ELSE [used_pred |-> prev.used_pred \cup {Min(found)},
                  matched |-> prev.matched \cup {n}]

\* lines 124-140: the local variables after phase 1
Phase1(gt, pred) ==
    LET gk == [i \in DOMAIN gt |-> key(gt[i])]
        pk == [j \in DOMAIN pred |-> key(pred[j])]
        m == Greedy(gk, pk, [i \in DOMAIN gt |-> TRUE], Len(gt))
    IN [ tp |-> Cardinality(m.matched),
         used_pred |-> m.used_pred,
         gt_remaining |-> Without(gt, m.matched),
         pred_remaining |-> Without(pred, m.used_pred) ]

\* Phase2 without the loop of lines 143-152: nothing is matched by signature
Phase2Skipped(f) ==
    [ tp |-> f.tp,
      used_pred2 |-> {},
      matched2 |-> {},
      gt1 |-> f.gt_remaining,
      pred1 |-> f.pred_remaining,
      gt_remaining |-> f.gt_remaining,
      pred_remaining |-> f.pred_remaining ]

\* lines 141-154: the local variables after phase 2, given those after phase 1
Phase2(f) ==
    LET gs == [i \in DOMAIN f.gt_remaining |-> signature(f.gt_remaining[i])]
        ps == [j \in DOMAIN f.pred_remaining |-> signature(f.pred_remaining[j])]
        m == Greedy(gs, ps, [i \in DOMAIN gs |-> gs[i] # {}], Len(gs))
    IN [ tp |-> f.tp + Cardinality(m.matched),
         used_pred2 |-> m.used_pred,
         matched2 |-> m.matched,
         gt1 |-> f.gt_remaining,
         pred1 |-> f.pred_remaining,
         gt_remaining |-> Without(f.gt_remaining, m.matched),
         pred_remaining |-> Without(f.pred_remaining, m.used_pred) ]

\* the tuple match_owners returns
match_owners(gt, pred) ==
    CHOOSE counts \in
      { [tp |-> f.tp, fp |-> Len(f.pred_remaining), fn |-> Len(f.gt_remaining)] :
        f \in {Phase2(first) : first \in {Phase1(gt, pred)}} } : TRUE

(***************************************************************************)
(* The owner lists given to match_owners.                                  *)
(***************************************************************************)
\* most owners in a list
MaxOwners == 2

Pappas == <<"Π", "Α", "Π", "Π", "Α", "Σ">>

Giorgos == <<"Γ", "Ι", "Ω", "Ρ", "Γ", "Ο", "Σ">>

\* a full name, the same name in small letters with accents, the name with
\* its fields swapped, the name all in the surname field, another given
\* name, an owner without a name, an owner whose name is a corporate marker
OwnerPool ==
    { Owner(Pappas, Giorgos),
      Owner(<<"Π", "α", "π", "π", "ά", "ς">>, <<"Γ", "ι", "ώ", "ρ", "γ", "ο", "ς">>),
      Owner(Giorgos, Pappas),
      Owner(Pappas \o <<" ">> \o Giorgos, <<>>),
      Owner(Pappas, <<"Ν", "Ι", "Κ", "Ο", "Σ">>),
      Owner(<<>>, <<>>),
      Owner(<<"A", "E">>, <<>>) }

OwnerLists == UNION {[1..k -> OwnerPool] : k \in 0..MaxOwners}

InitOwners ==
    /\ pc = "call"
    /\ fn = "none"
    /\ arg \in OwnerLists \X OwnerLists
    /\ frame = None
    /\ ret = None

MatchPhase1 ==
    /\ pc = "call"
    /\ pc' = "phase2"
    /\ fn' = "match_owners"
    /\ frame' = Phase1(arg[1], arg[2])
    /\ UNCHANGED <<arg, ret>>

MatchPhase2 ==
    /\ pc = "phase2"
    /\ pc' = "done"
    /\ frame' = Phase2(frame)
    /\ ret' = [ tp |-> frame'.tp,
                fp |-> Len(frame'.pred_remaining),
                fn |-> Len(frame'.gt_remaining) ]
    /\ UNCHANGED <<fn, arg>>

NextOwners == MatchPhase1 \/ MatchPhase2

SpecOwners == InitOwners /\ [][NextOwners]_vars

(***************************************************************************)
(* C8: match_owners on a ground-truth list and a predicted list holding    *)
(* the same (surname, given name) pairs in the same order, n owners long,  *)
(* repeated owners included, returns TP = n, FP = 0, FN = 0.               *)
(***************************************************************************)
C8_IdenticalLists ==
    (pc = "done" /\ fn = "match_owners" /\ arg[1] = arg[2])
        => ret = [tp |-> Len(arg[1]), fp |-> 0, fn |-> 0]

\* the same owner twice in both lists
C8_Witness ==
    /\ pc = "done"
    /\ fn = "match_owners"
    /\ arg[1] = <<Owner(Pappas, Giorgos), Owner(Pappas, Giorgos)>>
    /\ arg[2] = arg[1]
    /\ ret = [tp |-> 2, fp |-> 0, fn |-> 0]

\* the name tokens of an owner, whichever field holds them
TokenSet(o) ==
    Range(Words(normalize_owner_component(o.surname)))
        \cup Range(Words(normalize_owner_component(o.name)))

\* the positions in list of the owners whose tokens are toks
WithTokens(list, toks) == {i \in DOMAIN list : TokenSet(list[i]) = toks}

\* The statement as the specification words it: a predicted owner left by
\* phase 1 is counted as a true positive whenever a ground-truth owner left
\* by phase 1 has the same non-empty token set.  A second predicted owner
\* with the tokens of one ground-truth owner is a false positive.
C9_WrongFieldsCounted ==
    (pc = "done" /\ fn = "match_owners")
        => \A i \in DOMAIN frame.gt1 : \A j \in DOMAIN frame.pred1 :
               (TokenSet(frame.gt1[i]) = TokenSet(frame.pred1[j])
                /\ TokenSet(frame.gt1[i]) # {})
                   => j \in frame.used_pred2

(***************************************************************************)
(* C9: a predicted owner whose name tokens are all correct but in the      *)
(* wrong fields is counted as a true positive against the ground-truth     *)
(* owner with the same non-empty token set, through the phase-2 signature  *)
(* match, provided neither was consumed in phase 1 and as long as an       *)
(* unmatched owner with that token set is left on the other side: the      *)
(* owners phase 1 left with the same non-empty token set differ in their   *)
(* fields, and of k such ground-truth and m such predicted owners phase 2  *)
(* matches the first min(k, m) of each, one to one.                        *)
(***************************************************************************)
C9_SignatureMatch ==
    (pc = "done" /\ fn = "match_owners")
        => \A i \in DOMAIN frame.gt1 : \A j \in DOMAIN frame.pred1 :
               (TokenSet(frame.gt1[i]) = TokenSet(frame.pred1[j])
                /\ TokenSet(frame.gt1[i]) # {})
                   => LET toks == TokenSet(frame.gt1[i])
                          g == WithTokens(frame.gt1, toks)
                          p == WithTokens(frame.pred1, toks)
                          least == IF Cardinality(g) <= Cardinality(p)
                                   THEN Cardinality(g) ELSE Cardinality(p)
                          First(S) == {x \in S : Cardinality({y \in S : y < x}) < least}
                      IN /\ key(frame.gt1[i]) # key(frame.pred1[j])
                         /\ frame.matched2 \cap g = First(g)
                         /\ frame.used_pred2 \cap p = First(p)
                         /\ ret.tp >= least

\* one ground-truth owner; a predicted owner with the fields swapped, who
\* is matched, and one with both tokens in the surname field, who is not
C9_Witness ==
    /\ pc = "done"
    /\ fn = "match_owners"
    /\ arg[1] = <<Owner(Pappas, Giorgos)>>
    /\ arg[2] = <<Owner(Giorgos, Pappas), Owner(Pappas \o <<" ">> \o Giorgos, <<>>)>>
    /\ frame.used_pred2 = {1}
    /\ ret = [tp |-> 1, fp |-> 1, fn |-> 0]

(***************************************************************************)
(* TableExtractor: the table blocks of the raw text and their rows.        *)
(***************************************************************************)
\* the line boundaries of str.splitlines() the texts of the model can hold
LineBreaks == {"\n", "\r", "\f"}

RECURSIVE splitlines(_)
\* text.splitlines(): "\r\n" is one boundary, no empty last line
splitlines(text) ==
    IF text = <<>> THEN <<>>
    ELSE IF \A i \in DOMAIN text : text[i] \notin LineBreaks THEN <<text>>
    ELSE LET i == CHOOSE i \in DOMAIN text :
                      text[i] \in LineBreaks /\ \A j \in 1..(i - 1) : text[j] \notin LineBreaks
             skip == IF text[i] = "\r" /\ i < Len(text) /\ text[i + 1] = "\n" THEN 2 ELSE 1
         IN <<SubSeq(text, 1, i - 1)>> \o splitlines(SubSeq(text, i + skip, Len(text)))

\* line.strip().startswith("|")
IsTableLine(line) == StartsWith(Strip(line), "|")

RECURSIVE TableRuns(_, _, _)
\* the loop of extract_docling_tables from line n on, with the tables
\* closed so far and the lines cur of the open one
TableRuns(lines, n, st) ==
    IF n > Len(lines) THEN st
    ELSE TableRuns(lines, n + 1,
             IF IsTableLine(lines[n])
             THEN [tables |-> st.tables, cur |-> Append(st.cur, lines[n])]
             ELSE IF st.cur # <<>>
             THEN [tables |-> Append(st.tables, st.cur), cur |-> <<>>]
             ELSE st)

\* extract_docling_tables without lines 149-150
ClosedTables(text) ==
    TableRuns(splitlines(text), 1, [tables |-> <<>>, cur |-> <<>>]).tables

extract_docling_tables(text) ==
    LET st == TableRuns(splitlines(text), 1, [tables |-> <<>>, cur |-> <<>>])
    IN IF st.cur # <<>> THEN Append(st.tables, st.cur) ELSE st.tables

\* the cells of a line, not trimmed
CellsUntrimmed(l) == Split(StripChars(Strip(l), {"|"}), "|")

\* [c.strip() for c in l.strip().strip("|").split("|")]
Cells(l) ==
    LET parts == Split(StripChars(Strip(l), {"|"}), "|")
    IN [i \in DOMAIN parts |-> Strip(parts[i])]

\* re.fullmatch(r"-+", p)
IsDashes(p) == p # <<>> /\ \A i \in DOMAIN p : p[i] = "-"

parse_markdown_table(lines) ==
    LET parts == [i \in DOMAIN lines |-> Cells(lines[i])]
        dropped == {i \in DOMAIN lines :
                       \/ ~IsTableLine(lines[i])
                       \/ \A k \in DOMAIN parts[i] : IsDashes(parts[i][k])}
    IN Without(parts, dropped)

(***************************************************************************)
(* OwnerTableMapper.                                                       *)
(***************************************************************************)
\* "επώνυμο/ία"
LabelSurname == <<"ε", "π", "ώ", "ν", "υ", "μ", "ο", "/", "ί", "α">>

\* "όνομα"
LabelName == <<"ό", "ν", "ο", "μ", "α">>

\* "ιδιότητα"
LabelRole == <<"ι", "δ", "ι", "ό", "τ", "η", "τ", "α">>

\* "ποσοστό"
LabelShare == <<"π", "ο", "σ", "ο", "σ", "τ", "ό">>

\* "τύπος δικαιώματος"
LabelRight == <<"τ", "ύ", "π", "ο", "ς", " ", "δ", "ι", "κ", "α", "ι", "ώ", "μ", "α", "τ", "ο", "ς">>

\* FindHeader that looks at the first row only
FirstRowHeader(tbl) ==
    IF /\ tbl # <<>>
       /\ LabelSurname \in {Lower(tbl[1][k]) : k \in DOMAIN tbl[1]}
       /\ LabelShare \in {Lower(tbl[1][k]) : k \in DOMAIN tbl[1]}
    THEN [at |-> 1, header |-> [k \in DOMAIN tbl[1] |-> Lower(tbl[1][k])]]
    ELSE [at |-> 0, header |-> <<>>]

\* the lower-cased header of a table: the first of its first 3 rows with
\* the surname and the share label, <<>> when there is none; at is the
\* header's position
FindHeader(tbl) ==
    LET lowered == [idx \in DOMAIN tbl |-> [k \in DOMAIN tbl[idx] |-> Lower(tbl[idx][k])]]
        found == {idx \in DOMAIN tbl :
                     /\ idx <= 3
                     /\ LabelSurname \in Range(lowered[idx])
                     /\ LabelShare \in Range(lowered[idx])}
    IN IF found = {} THEN [at |-> 0, header |-> <<>>]
       ELSE [at |-> Min(found), header |-> lowered[Min(found)]]

\* dict(zip(header, row)).get(label, ""): the cell under the last header
\* cell equal to label
Get(header, row, label) ==
    LET under == {i \in DOMAIN header \cap DOMAIN row : header[i] = label}
    IN IF under = {} THEN <<>> ELSE row[CHOOSE i \in under : \A j \in under : j <= i]

\* s.replace(a, b) for characters a and b
ReplaceChar(str, a, b) == [i \in DOMAIN str |-> IF str[i] = a THEN b ELSE str[i]]

\* lines 187-191 without the except clause
ShareUncaught(raw_share) ==
    IF raw_share = <<>> THEN Dec(0, 0) ELSE PyFloat(ReplaceChar(raw_share, ",", "."))

\* lines 187-191: the value of Ποσοστό
Share(raw_share) ==
    IF raw_share = <<>> \/ IsRaised(PyFloat(ReplaceChar(raw_share, ",", ".")))
    THEN Dec(0, 0)
    ELSE PyFloat(ReplaceChar(raw_share, ",", "."))

\* lines 192-200: the owner of a row
OwnerEntry(header, row) ==
    ("Επώνυμο/ία" :> Strip(Get(header, row, LabelSurname)))
    @@ ("Όνομα" :> Strip(Get(header, row, LabelName)))
    @@ ("Ιδιότητα" :> Strip(Get(header, row, LabelRole)))
    @@ ("Ποσοστό" :> Share(Strip(Get(header, row, LabelShare))))
    @@ ("Τύπος δικαιώματος" :> Strip(Get(header, row, LabelRight)))

\* RowSkipped without the test of lines 185-186
RowSkippedShort(header, row) == Len(row) < Len(header)

\* lines 182-186: the rows that give no owner
RowSkipped(header, row) ==
    \/ Len(row) < Len(header)
    \/ /\ Strip(Get(header, row, LabelSurname)) = <<>>
       /\ Strip(Get(header, row, LabelRole)) = <<>>

\* lines 168-200: the owners of one table block
TableOwners(tbl_lines) ==
    LET tbl == parse_markdown_table(tbl_lines)
        h == FindHeader(tbl)
        entries == [i \in DOMAIN tbl |-> OwnerEntry(h.header, tbl[i])]
    IN IF Len(tbl) < 2 \/ h.at = 0 THEN <<>>
       ELSE Without(entries, {i \in DOMAIN tbl : i <= h.at \/ RowSkipped(h.header, tbl[i])})

\* parse_docling_owners that stops after the first table that gives owners
FirstTableOwners(text) ==
    LET tables == extract_docling_tables(text)
        giving == {k \in DOMAIN tables : TableOwners(tables[k]) # <<>>}
    IN IF giving = {} THEN <<>> ELSE TableOwners(tables[Min(giving)])

parse_docling_owners(text) ==
    LET tables == extract_docling_tables(text)
    IN Join([k \in DOMAIN tables |-> TableOwners(tables[k])])

(***************************************************************************)
(* CoverageTableMapper: the rows of the coverage table.                    *)
(***************************************************************************)
\* ["ΥΦΙΣΤΑ", "ΝΟΜΙΜ", "ΠΡΑΓΜ", "ΣΥΝΟΛ"]
GroupLabels ==
    { <<"Υ", "Φ", "Ι", "Σ", "Τ", "Α">>,
      <<"Ν", "Ο", "Μ", "Ι", "Μ">>,
      <<"Π", "Ρ", "Α", "Γ", "Μ">>,
      <<"Σ", "Υ", "Ν", "Ο", "Λ">> }

\* IsCoverageRow with the test for a group name at every row
IsCoverageRowGuarded(row, i) ==
    /\ Len(row) = 5
    /\ row[1] \in Range(COVERAGE_KEYS)
    /\ ~(\E label \in GroupLabels : Contains(row[2], label))

\* lines 212-214: row i of a table is a coverage row
IsCoverageRow(row, i) ==
    /\ Len(row) = 5
    /\ row[1] \in Range(COVERAGE_KEYS)
    /\ ~(i = 1 /\ \E label \in GroupLabels : Contains(row[2], label))

RECURSIVE CoverageRows(_, _, _)
\* cov after the loop of line 211 from row i of tbl on
CoverageRows(tbl, i, cov) ==
    IF i > Len(tbl) THEN cov
    ELSE CoverageRows(tbl, i + 1,
             IF IsCoverageRow(tbl[i], i)
             THEN (tbl[i][1] :> [k \in 1..4 |-> parse_eu_number(tbl[i][k + 1])]) @@ cov
             ELSE cov)

RECURSIVE CoverageLongTables(_, _, _)
\* CoverageTables that passes over the tables of fewer than 2 rows
CoverageLongTables(tables, k, cov) ==
    IF k > Len(tables) THEN cov
    ELSE CoverageLongTables(tables, k + 1,
             IF Len(parse_markdown_table(tables[k])) < 2 THEN cov
             ELSE CoverageRows(parse_markdown_table(tables[k]), 1, cov))

RECURSIVE CoverageTables(_, _, _)
\* cov after the loop of line 207 from table k on
CoverageTables(tables, k, cov) ==
    IF k > Len(tables) THEN cov
    ELSE CoverageTables(tables, k + 1,
             CoverageRows(parse_markdown_table(tables[k]), 1, cov))

parse_docling_coverage(text) == CoverageTables(extract_docling_tables(text), 1, <<>>)

(***************************************************************************)
(* RegistryCodeExtractor.  A regular expression is modelled by the scan    *)
(* it performs: the classes that follow one another in each pattern are    *)
(* disjoint, so a greedy repetition gives nothing back and a match at a    *)
(* position is decided by one pass to the right.                           *)
(***************************************************************************)
\* "ΚΑΕΚ"
Label == <<"Κ", "Α", "Ε", "Κ">>

\* [0-9/]
CodeChars == Digits \cup {"/"}

\* "/0/0"
ZeroSuffix == <<"/", "0", "/", "0">>

\* the character at position i, "" past the end
CharAt(str, i) == IF i \in DOMAIN str THEN str[i] ELSE ""

\* the positions where sub occurs in str
Find(str, sub) ==
    {i \in 1..(Len(str) - Len(sub) + 1) : SubSeq(str, i, i + Len(sub) - 1) = sub}

\* str.endswith(sub)
EndsWith(str, sub) ==
    Len(sub) <= Len(str) /\ SubSeq(str, Len(str) - Len(sub) + 1, Len(str)) = sub

\* the position after the longest run of characters of cs that starts at i
Past(str, i, cs) ==
    IF i > Len(str) THEN i
    ELSE CHOOSE j \in i..(Len(str) + 1) :
             /\ \A k \in i..(j - 1) : str[k] \in cs
             /\ (j = Len(str) + 1 \/ str[j] \notin cs)

\* the position after the longest run of characters not of cs that starts at i
Until(str, i, cs) ==
    IF i > Len(str) THEN i
    ELSE CHOOSE j \in i..(Len(str) + 1) :
             /\ \A k \in i..(j - 1) : str[k] \notin cs
             /\ (j = Len(str) + 1 \/ str[j] \in cs)

\* group 1 of r"ΚΑΕΚ\s*[:\-]?\s*([0-9/]{6,})" matched at p, <<>> without a match
LabelCodeAt(text, p) ==
    LET a == Past(text, p + Len(Label), Whitespace)
        b == IF CharAt(text, a) \in {":", "-"} THEN a + 1 ELSE a
        c == Past(text, b, Whitespace)
        d == Past(text, c, CodeChars)
    IN IF d - c >= 6 THEN SubSeq(text, c, d - 1) ELSE <<>>

\* group 1 of r"ΚΑΕΚ[^0-9/]*([0-9/]{6,})" matched at p, <<>> without a match
LineCodeAt(line, p) ==
    LET c == Until(line, p + Len(Label), CodeChars)
        d == Past(line, c, CodeChars)
    IN IF d - c >= 6 THEN SubSeq(line, c, d - 1) ELSE <<>>

\* group 1 of re.search(r"ΚΑΕΚ\s*[:\-]?\s*([0-9/]{6,})", text): the leftmost
\* match, <<>> without a match
SearchLabelCode(text) ==
    LET hits == {p \in Find(text, Label) : LabelCodeAt(text, p) # <<>>}
    IN IF hits = {} THEN <<>> ELSE LabelCodeAt(text, Min(hits))

\* group 1 of re.search(r"ΚΑΕΚ[^0-9/]*([0-9/]{6,})", line): the leftmost
\* match, <<>> without a match
SearchLineCode(line) ==
    LET hits == {p \in Find(line, Label) : LineCodeAt(line, p) # <<>>}
    IN IF hits = {} THEN <<>> ELSE LineCodeAt(line, Min(hits))

\* FirstCode with the line scan tried before the regex
FirstCodeLineFirst(text) ==
    LET lines == splitlines(text)
        good == {n \in DOMAIN lines : SearchLineCode(lines[n]) # <<>>}
    IN IF good # {} THEN SearchLineCode(lines[Min(good)])
       ELSE SearchLabelCode(text)

\* extract_kaek(text) or "": lines 81-89
FirstCode(text) ==
    LET lines == splitlines(text)
        good == {n \in DOMAIN lines : SearchLineCode(lines[n]) # <<>>}
    IN IF SearchLabelCode(text) # <<>> THEN SearchLabelCode(text)
       ELSE IF good = {} THEN <<>>
       ELSE SearchLineCode(lines[Min(good)])

extract_kaek(text) == IF FirstCode(text) = <<>> THEN None ELSE FirstCode(text)

\* re.fullmatch(r'[0-9/]{6,}', c)
IsCode(c) == Len(c) >= 6 /\ Range(c) \subseteq CodeChars

\* lines 242-244: cand_clean for the cell after the cell at idx
Candidate(cells, idx) ==
    LET next_cell == Strip(cells[idx + 1])
        cand == IF next_cell = <<>> THEN <<>> ELSE Words(next_cell)[1]
    IN Remove(cand, " ")

\* lines 239-253: kaek after the two loops over the cells of one table line
CellScan(cells) ==
    LET after == {idx \in DOMAIN cells :
                     /\ cells[idx] = Label
                     /\ idx + 1 <= Len(cells)
                     /\ IsCode(Candidate(cells, idx))}
        before == {idx \in DOMAIN cells :
                     /\ IsCode(Remove(cells[idx], " "))
                     /\ \E j \in (idx + 1)..Len(cells) : cells[j] = Label}
    IN IF after # {} THEN Candidate(cells, Min(after))
       ELSE IF before # {} THEN Remove(cells[Min(before)], " ")
       ELSE <<>>

\* lines 230-255: kaek after the scan of the table lines that hold the label
TableScan(raw_text) ==
    LET lines == splitlines(raw_text)
        good == {n \in DOMAIN lines :
                    /\ Contains(lines[n], Label)
                    /\ IsTableLine(lines[n])
                    /\ CellScan(Cells(lines[n])) # <<>>}
    IN IF "|" \notin Range(raw_text) \/ good = {} THEN <<>>
       ELSE CellScan(Cells(lines[Min(good)]))

RECURSIVE Replace(_, _, _)
\* str.replace(old, new) for a non-empty old
Replace(str, old, new) ==
    IF Len(str) < Len(old) THEN str
    ELSE IF SubSeq(str, 1, Len(old)) = old
    THEN new \o Replace(SubSeq(str, Len(old) + 1, Len(str)), old, new)
    ELSE <<str[1]>> \o Replace(Tail(str), old, new)

\* tidy without the collapse of the repeated slashes
tidySpaces(v) ==
    Remove(Replace(Replace(v, <<" ", "/">>, <<"/">>), <<"/", " ">>, <<"/">>), " ")

\* lines 92-95
tidy(v) ==
    LET u == Remove(Replace(Replace(v, <<" ", "/">>, <<"/">>), <<"/", " ">>, <<"/">>), " ")
    IN Without(u, {i \in DOMAIN u : i > 1 /\ u[i] = "/" /\ u[i - 1] = "/"})

\* the position of the last character of r'/\s*0\s*/' matched at i, 0 without a match
SlashZeroSlash(line, i) ==
    LET b == Past(line, i + 1, Whitespace)
        c == Past(line, b + 1, Whitespace)
    IN IF CharAt(line, i) = "/" /\ CharAt(line, b) = "0" /\ CharAt(line, c) = "/"
       THEN c ELSE 0

\* the position of the last character of r'/\s*0\s*/\s*0' matched at i, 0 without a match
SlashZeros(line, i) ==
    LET c == SlashZeroSlash(line, i)
        d == Past(line, c + 1, Whitespace)
    IN IF c # 0 /\ CharAt(line, d) = "0" THEN d ELSE 0

\* r'\s*/\s*0\s*/\s*0' matches at i
SuffixAt(line, i) == SlashZeros(line, Past(line, i, Whitespace)) # 0

\* re.search(r'/\s*0\s*/\s*0', line)
HasSlashZeros(line) == \E i \in DOMAIN line : SlashZeros(line, i) # 0

\* re.search(r'ΚΑΕΚ\s*0', line)
LabelThenZero(line) ==
    \E p \in Find(line, Label) : CharAt(line, Past(line, p + Len(Label), Whitespace)) = "0"

\* re.search(r'/\s*0\s*/\s*$', line)
SlashesAtEnd(line) ==
    \E i \in DOMAIN line :
        /\ SlashZeroSlash(line, i) # 0
        /\ Past(line, SlashZeroSlash(line, i) + 1, Whitespace) = Len(line) + 1

\* re.search(r'/\s*0\s*/\s*\|', line)
SlashesAtPipe(line) ==
    \E i \in DOMAIN line :
        /\ SlashZeroSlash(line, i) # 0
        /\ CharAt(line, Past(line, SlashZeroSlash(line, i) + 1, Whitespace)) = "|"

\* the first positions of the maximal runs of 6 digits or more:
\* re.findall(r'[0-9]{6,}', line)
DigitRuns(line) ==
    {i \in DOMAIN line :
        /\ line[i] \in Digits
        /\ (i = 1 \/ line[i - 1] \notin Digits)
        /\ Past(line, i, Digits) - i >= 6}

\* the run of digits that starts at i
Run(line, i) == SubSeq(line, i, Past(line, i, Digits) - 1)

\* the first positions of the matches of r'([0-9]{6,})\s*/\s*0\s*/\s*0'
SuffixedRuns(line) == {i \in DOMAIN line \cap DigitRuns(line) : SuffixAt(line, Past(line, i, Digits))}

\* lines 105-114: original for a line with the label and the digit runs nums
FromLongest(line, nums) ==
    LET first == Min({i \in nums : \A j \in nums : Len(Run(line, j)) <= Len(Run(line, i))})
        longest == Run(line, first)
        marked == IF LabelThenZero(line) /\ (SlashesAtEnd(line) \/ SlashesAtPipe(line))
                  THEN longest \o ZeroSuffix ELSE longest
    IN IF HasSlashZeros(line) /\ ~EndsWith(marked, ZeroSuffix)
       THEN marked \o ZeroSuffix ELSE marked

RECURSIVE RecoverLabelled(_, _)
\* Recover that looks at the lines with the label only
RecoverLabelled(lines, n) ==
    IF n > Len(lines) THEN <<>>
    ELSE IF Contains(lines[n], Label) /\ SuffixedRuns(lines[n]) # {}
    THEN Run(lines[n], Min(SuffixedRuns(lines[n]))) \o ZeroSuffix
    ELSE IF Contains(lines[n], Label) /\ DigitRuns(lines[n]) # {}
    THEN FromLongest(lines[n], DigitRuns(lines[n]))
    ELSE RecoverLabelled(lines, n + 1)

RECURSIVE Recover(_, _)
\* lines 98-115: original after the loop from line n on, when value is empty
Recover(lines, n) ==
    IF n > Len(lines) THEN <<>>
    ELSE IF SuffixedRuns(lines[n]) # {}
    THEN Run(lines[n], Min(SuffixedRuns(lines[n]))) \o ZeroSuffix
    ELSE IF Contains(lines[n], Label) /\ DigitRuns(lines[n]) # {}
    THEN FromLongest(lines[n], DigitRuns(lines[n]))
    ELSE Recover(lines, n + 1)

\* lines 119-124: v with the suffix a line of the text shows after it
Reconstruct(lines, v) ==
    IF /\ ~Contains(v, ZeroSuffix)
       /\ \E n \in DOMAIN lines :
              /\ Contains(lines[n], SubSeq(v, 1, IF Len(v) < 10 THEN Len(v) ELSE 10))
              /\ HasSlashZeros(lines[n])
              /\ \/ \E p \in Find(lines[n], v) : SuffixAt(lines[n], p + Len(v))
                 \/ Contains(lines[n], Label)
    THEN v \o ZeroSuffix ELSE v

\* most characters between base and the suffix in the patterns of lines 129-130
Window == 40

\* pattern_rev.search(line) alone
NearSuffixBefore(line, base) ==
    \E i \in DOMAIN line : \E k \in 0..Window :
        /\ SlashZeros(line, i) # 0
        /\ SlashZeros(line, i) + 1 + k \in Find(line, base)

\* pattern.search(line) or pattern_rev.search(line), lines 129-132
NearSuffix(line, base) ==
    \/ \E p \in Find(line, base) : \E k \in 0..Window :
           SlashZeros(line, p + Len(base) + k) # 0
    \/ \E i \in DOMAIN line : \E k \in 0..Window :
           /\ SlashZeros(line, i) # 0
           /\ SlashZeros(line, i) + 1 + k \in Find(line, base)

\* lines 126-134
Complete(lines, v) ==
    IF /\ ~Contains(v, ZeroSuffix)
       /\ v # <<>>
       /\ "/" \notin Range(v)
       /\ \E n \in DOMAIN lines : NearSuffix(lines[n], v)
    THEN v \o ZeroSuffix ELSE v

_post_process_kaek(raw_text, value) ==
    LET lines == splitlines(raw_text)
        original == IF value = <<>> THEN Recover(lines, 1) ELSE value
    IN IF original = <<>> THEN <<>>
       ELSE Complete(lines, tidy(Reconstruct(lines, original)))

(***************************************************************************)
(* RecordBuilder.                                                          *)
(***************************************************************************)
build_structured(stem, raw_text, extractor) ==
    LET found == FirstCode(raw_text)
        kaek == IF found = <<>> THEN TableScan(raw_text) ELSE found
    IN ("ΑΔΑ" :> stem)
       @@ ("ΚΑΕΚ" :> _post_process_kaek(raw_text, kaek))
       @@ ("Στοιχεία κυρίου του έργου" :> parse_docling_owners(raw_text))
       @@ ("Στοιχεία Διαγράμματος Κάλυψης" :> orient_coverage(parse_docling_coverage(raw_text)))

(***************************************************************************)
(* The raw texts given to build_structured: up to MaxLines lines, each a   *)
(* row of the owner table, a coverage row, a separator row or a line of    *)
(* prose with a registry code.                                             *)
(***************************************************************************)
\* most lines of a raw text
MaxLines == 4

\* the line of a table row with these cells
MarkdownRow(cells) == <<"|", " ">> \o JoinWith(cells, <<" ", "|", " ">>) \o <<" ", "|">>

HeaderCells ==
    << <<"Ε", "π", "ώ", "ν", "υ", "μ", "ο", "/", "ί", "α">>,
       <<"Ό", "ν", "ο", "μ", "α">>,
       <<"Ι", "δ", "ι", "ό", "τ", "η", "τ", "α">>,
       <<"Π", "ο", "σ", "ο", "σ", "τ", "ό">>,
       <<"Τ", "ύ", "π", "ο", "ς", " ", "δ", "ι", "κ", "α", "ι", "ώ", "μ", "α", "τ", "ο", "ς">> >>

OwnerCells ==
    << <<"Π", "Α", "Π", "Α", "Δ", "Ο", "Π", "Ο", "Υ", "Λ", "Ο", "Σ">>,
       <<"Γ", "Ε", "Ω", "Ρ", "Γ", "Ι", "Ο", "Σ">>,
       <<"Ι", "δ", "ι", "ο", "κ", "τ", "ή", "τ", "η", "ς">>,
       <<"1", "0", "0">>,
       <<"Π", "λ", "ή", "ρ", "η", "ς", " ", "κ", "υ", "ρ", "ι", "ό", "τ", "η", "τ", "α">> >>

CoverageCells ==
    <<KeyFootprint, <<"1", "0", "0", ",", "0", "0">>, <<"1", "0", "0", ",", "0", "0">>,
      <<"9", "5", ",", "5", "0">>, <<"9", "5", ",", "5", "0">>>>

HeaderLine == MarkdownRow(HeaderCells)

OwnerLine == MarkdownRow(OwnerCells)

CoverageLine == MarkdownRow(CoverageCells)

SeparatorLine == MarkdownRow([i \in 1..5 |-> <<"-", "-", "-">>])

\* "ΚΑΕΚ: 050123456789"
ProseLine == <<"Κ", "Α", "Ε", "Κ", ":", " ", "0", "5", "0", "1", "2", "3", "4", "5", "6", "7", "8", "9">>

LinePool == {HeaderLine, OwnerLine, CoverageLine, SeparatorLine, ProseLine}

\* the ΑΔΑ of the document
Stem == <<"A", "1">>

BuildInputs ==
    {<<Stem, JoinWith(ls, <<"\n">>), "docling">> : ls \in WordLists(LinePool, MaxLines)}

InitBuild ==
    /\ pc = "call"
    /\ fn = "none"
    /\ arg \in BuildInputs
    /\ frame = None
    /\ ret = None

Build ==
    /\ pc = "call"
    /\ pc' = "done"
    /\ fn' = "build_structured"
    /\ ret' = build_structured(arg[1], arg[2], arg[3])
    /\ UNCHANGED <<arg, frame>>

NextBuild == Build

SpecBuild == InitBuild /\ [][NextBuild]_vars

\* the raw text of the end-to-end example: its table lines, separators
\* aside, are the header row with the owner row under it and one coverage
\* row, in the owner table's block or in a block of its own
EndToEndText(text) ==
    LET rows == SelectSeq(splitlines(text), LAMBDA l : l # SeparatorLine)
        at(l) == {i \in DOMAIN rows : rows[i] = l}
    IN /\ Cardinality(at(HeaderLine)) = 1
       /\ Cardinality(at(OwnerLine)) = 1
       /\ Cardinality(at(CoverageLine)) = 1
       /\ \E i \in at(HeaderLine) : i + 1 \in at(OwnerLine)

\* the coverage row stands under the header in the owner table's block
CoverageUnderHeader(text) ==
    LET lines == splitlines(text)
    IN \E i, j \in DOMAIN lines :
           /\ i < j
           /\ lines[i] = HeaderLine
           /\ lines[j] = CoverageLine
           /\ \A k \in i..j : IsTableLine(lines[k])

\* the owner of the example's data row
ExampleOwner ==
    ("Επώνυμο/ία" :> OwnerCells[1]) @@ ("Όνομα" :> OwnerCells[2])
    @@ ("Ιδιότητα" :> OwnerCells[3]) @@ ("Ποσοστό" :> Dec(100, 0))
    @@ ("Τύπος δικαιώματος" :> OwnerCells[5])

\* the coverage row read as a row of the owner table
CoverageAsOwner ==
    ("Επώνυμο/ία" :> KeyFootprint) @@ ("Όνομα" :> CoverageCells[2])
    @@ ("Ιδιότητα" :> CoverageCells[3]) @@ ("Ποσοστό" :> Dec(955, 1))
    @@ ("Τύπος δικαιώματος" :> CoverageCells[5])

\* the cells of a grid other than the footprint cell of the groups of gs
OtherCellsZero(grid, gs) ==
    \A c \in Range(cols) : \A k \in Range(COVERAGE_KEYS) :
        (k = KeyFootprint /\ c \in gs) \/ grid[c][k] = Dec(0, 0)

\* The statement as the specification words it: one owner with share
\* 100.0, realized.footprint 95.5 and the other 27 cells 0.0.  The row
\* "100,00 | 100,00 | 95,50 | 95,50" fills the footprint cell of all four
\* groups.
C10_OnlyRealizedCell ==
    (pc = "done" /\ fn = "build_structured" /\ EndToEndText(arg[2]))
        => /\ Len(ret["Στοιχεία κυρίου του έργου"]) = 1
           /\ ret["Στοιχεία κυρίου του έργου"][1]["Ποσοστό"] = Dec(100, 0)
           /\ ret["Στοιχεία Διαγράμματος Κάλυψης"][ColRealized][KeyFootprint] = Dec(955, 1)
           /\ OtherCellsZero(ret["Στοιχεία Διαγράμματος Κάλυψης"], {ColRealized})

(***************************************************************************)
(* C10: end-to-end, for raw text with a table block of the header row and  *)
(* the one data row, plus the coverage row "Εμβ. κάλυψης κτιρίου | 100,00  *)
(* | 100,00 | 95,50 | 95,50": build_structured gives a coverage grid whose *)
(* footprint cells are existing 100.0, legalized 100.0, realized 95.5 and  *)
(* total 95.5 and whose other 24 cells are all 0.0; it gives exactly one   *)
(* owner, with share 100.0, when the coverage row does not stand under the *)
(* header in the owner table's block, and that owner followed by a second  *)
(* one read from the coverage row (share 95.5) when it does.               *)
(***************************************************************************)
C10_EndToEnd ==
    (pc = "done" /\ fn = "build_structured" /\ EndToEndText(arg[2]))
        => LET owners == ret["Στοιχεία κυρίου του έργου"]
               grid == ret["Στοιχεία Διαγράμματος Κάλυψης"]
           IN /\ ret["ΑΔΑ"] = arg[1]
              /\ owners = IF CoverageUnderHeader(arg[2])
                          THEN <<ExampleOwner, CoverageAsOwner>>
                          ELSE <<ExampleOwner>>
              /\ grid[ColExisting][KeyFootprint] = Dec(100, 0)
              /\ grid[ColLegalized][KeyFootprint] = Dec(100, 0)
              /\ grid[ColRealized][KeyFootprint] = Dec(955, 1)
              /\ grid[ColTotal][KeyFootprint] = Dec(955, 1)
              /\ OtherCellsZero(grid, Range(cols))

\* the owner table, a line of prose, the coverage row: one owner
C10_Witness ==
    /\ pc = "done"
    /\ fn = "build_structured"
    /\ arg[2] = JoinWith(<<HeaderLine, OwnerLine, ProseLine, CoverageLine>>, <<"\n">>)
    /\ Len(ret["Στοιχεία κυρίου του έργου"]) = 1
    /\ ret["Στοιχεία κυρίου του έργου"][1]["Ποσοστό"] = Dec(100, 0)
    /\ ret["Στοιχεία Διαγράμματος Κάλυψης"][ColRealized][KeyFootprint] = Dec(955, 1)
    /\ ret["Στοιχεία Διαγράμματος Κάλυψης"][ColExisting][KeyFootprint] = Dec(100, 0)

\* the coverage row in the owner table's block: two owners
C10_WitnessSameBlock ==
    /\ pc = "done"
    /\ fn = "build_structured"
    /\ arg[2] = JoinWith(<<HeaderLine, OwnerLine, CoverageLine>>, <<"\n">>)
    /\ Len(ret["Στοιχεία κυρίου του έργου"]) = 2

(***************************************************************************)
(* Malformed raw texts given to build_structured: up to MaxTextLines lines *)
(* that show the label and a code in the ways the strategies look for,     *)
(* a code without the label, and table rows with cells that do not parse.  *)
(***************************************************************************)
\* most lines of a malformed raw text
MaxTextLines == 3

\* "ΚΑΕΚ: 123456": the label, a colon and a code
LabelledCode == <<"Κ", "Α", "Ε", "Κ", ":", " ", "1", "2", "3", "4", "5", "6">>

\* "ΚΑΕΚ x 654321": the label, a word and a code
LabelWordCode == <<"Κ", "Α", "Ε", "Κ", " ", "x", " ", "6", "5", "4", "3", "2", "1">>

\* "| 222222 | ΚΑΕΚ |": a table row with the code before the label
CodeBeforeLabel == << "|", " ", "2", "2", "2", "2", "2", "2", " ", "|", " ", "Κ", "Α", "Ε",
       "Κ", " ", "|" >>

\* "123456 / 0 / 0": a code with its suffix and without the label
SuffixedCode == <<"1", "2", "3", "4", "5", "6", " ", "/", " ", "0", " ", "/", " ", "0">>

\* "ΚΑΕΚ 12 3333333": the label, a short number and a code
LabelShortCode == << "Κ", "Α", "Ε", "Κ", " ", "1", "2", " ", "3", "3", "3", "3", "3", "3",
       "3" >>

\* "ΚΑΕΚ: 12//3456/": the label and a run of digits and slashes
LabelledSlashes == << "Κ", "Α", "Ε", "Κ", ":", " ", "1", "2", "/", "/", "3", "4", "5", "6",
       "/" >>

\* "| Αριθμός Ορόφων | x | 2 | | - |": a coverage row with unparsable cells
BrokenCoverageLine == MarkdownRow(<<KeyFloors, <<"x">>, <<"2">>, <<>>, <<"-">>>>)

\* "| Επώνυμο/ία | Ποσοστό |"
ShortHeaderLine == MarkdownRow(<<HeaderCells[1], HeaderCells[4]>>)

\* "| Α | x |": an owner row with an unparsable share
BrokenOwnerLine == MarkdownRow(<<<<"Α">>, <<"x">>>>)

TextLines ==
    { LabelledCode, LabelWordCode, CodeBeforeLabel, SuffixedCode, LabelShortCode,
      LabelledSlashes, Label, <<"x">>, BrokenCoverageLine, ShortHeaderLine,
      BrokenOwnerLine }

MalformedInputs ==
    {<<Stem, JoinWith(ls, <<"\n">>), "docling">> : ls \in WordLists(TextLines, MaxTextLines)}

InitMalformed ==
    /\ pc = "call"
    /\ fn = "none"
    /\ arg \in MalformedInputs
    /\ frame = None
    /\ ret = None

SpecMalformed == InitMalformed /\ [][NextBuild]_vars

\* the rows of all table blocks of a text
AllRows(text) ==
    LET tables == extract_docling_tables(text)
    IN Join([k \in DOMAIN tables |-> parse_markdown_table(tables[k])])

\* a table block of the text has an owner header among its first 3 rows
OwnerTableFound(text) ==
    LET tables == extract_docling_tables(text)
    IN \E k \in DOMAIN tables : FindHeader(parse_markdown_table(tables[k])).at # 0

\* the record is well formed: no exception stands where a value should
WellFormed(r) ==
    /\ DOMAIN r = {"ΑΔΑ", "ΚΑΕΚ", "Στοιχεία κυρίου του έργου", "Στοιχεία Διαγράμματος Κάλυψης"}
    /\ \A i \in DOMAIN r["Στοιχεία κυρίου του έργου"] :
           IsFloat(r["Στοιχεία κυρίου του έργου"][i]["Ποσοστό"])
    /\ DOMAIN r["Στοιχεία Διαγράμματος Κάλυψης"] = Range(cols)
    /\ \A c \in Range(cols) : \A k \in Range(COVERAGE_KEYS) :
           IsFloat(r["Στοιχεία Διαγράμματος Κάλυψης"][c][k])

\* a cell of the grid is 0.0 unless a row of 5 cells that starts with its
\* metric label holds, in the column of its group, a cell that parses to it
CellsDefaulted(text, grid) ==
    \A idx \in DOMAIN cols : \A k \in Range(COVERAGE_KEYS) :
        \/ grid[cols[idx]][k] = Dec(0, 0)
        \/ \E i \in DOMAIN AllRows(text) :
               /\ Len(AllRows(text)[i]) = 5
               /\ AllRows(text)[i][1] = k
               /\ parse_eu_number(AllRows(text)[i][idx + 1]) = grid[cols[idx]][k]

\* no line of the text shows a code to the recovery of lines 97-115: a run
\* of 6 digits or more before "/0/0", or the label and a run of 6 digits
NothingToRecover(text) ==
    \A n \in DOMAIN splitlines(text) :
        LET line == splitlines(text)[n]
        IN /\ SuffixedRuns(line) = {}
           /\ ~(Contains(line, Label) /\ DigitRuns(line) # {})

\* The statement as the specification words it: the code is empty when the
\* regex, the line scan and the table-cell scan all fail.  A line with
\* "123456 / 0 / 0", or with the label and a later run of digits, still
\* gives a code.
C11_EmptyWithoutStrategy ==
    (pc = "done" /\ fn = "build_structured")
        => /\ WellFormed(ret)
           /\ ret["ΑΔΑ"] = arg[1]
           /\ (~OwnerTableFound(arg[2]) => ret["Στοιχεία κυρίου του έργου"] = <<>>)
           /\ CellsDefaulted(arg[2], ret["Στοιχεία Διαγράμματος Κάλυψης"])
           /\ ((FirstCode(arg[2]) = <<>> /\ TableScan(arg[2]) = <<>>) => ret["ΚΑΕΚ"] = <<>>)

(***************************************************************************)
(* C11: build_structured never raises, for any raw text, and represents    *)
(* every failure as a default: the owners list is empty when no owner      *)
(* table is found, each of the 28 coverage cells is 0.0 when no coverage   *)
(* row gives it a value that parses, ΑΔΑ is the supplied stem, and ΚΑΕΚ is *)
(* the empty string when the regex, the line scan and the table-cell scan  *)
(* fail and no line shows a run of 6 digits or more before "/0/0" or       *)
(* beside the label (post-processing recovers a code from such a line).    *)
(***************************************************************************)
C11_Defaults ==
    (pc = "done" /\ fn = "build_structured")
        => /\ WellFormed(ret)
           /\ ret["ΑΔΑ"] = arg[1]
           /\ (~OwnerTableFound(arg[2]) => ret["Στοιχεία κυρίου του έργου"] = <<>>)
           /\ CellsDefaulted(arg[2], ret["Στοιχεία Διαγράμματος Κάλυψης"])
           /\ ((FirstCode(arg[2]) = <<>> /\ TableScan(arg[2]) = <<>> /\ NothingToRecover(arg[2]))
                  <=> ret["ΚΑΕΚ"] = <<>>)

\* prose and a coverage row with one cell that parses: no owner, no code,
\* one cell of the grid filled
C11_Witness ==
    /\ pc = "done"
    /\ fn = "build_structured"
    /\ arg[2] = JoinWith(<<<<"x">>, BrokenCoverageLine>>, <<"\n">>)
    /\ ret["Στοιχεία κυρίου του έργου"] = <<>>
    /\ ret["ΚΑΕΚ"] = <<>>
    /\ \A c \in Range(cols) : \A k \in Range(COVERAGE_KEYS) :
           ret["Στοιχεία Διαγράμματος Κάλυψης"][c][k] =
               IF c = ColLegalized /\ k = KeyFloors THEN Dec(2, 0) ELSE Dec(0, 0)

\* an owner row with an unparsable share: the share is 0.0
C11_WitnessShare ==
    /\ pc = "done"
    /\ fn = "build_structured"
    /\ arg[2] = JoinWith(<<ShortHeaderLine, BrokenOwnerLine>>, <<"\n">>)
    /\ Len(ret["Στοιχεία κυρίου του έργου"]) = 1
    /\ ret["Στοιχεία κυρίου του έργου"][1]["Ποσοστό"] = Dec(0, 0)

(***************************************************************************)
(* The raw texts and candidates given to _post_process_kaek: lines that    *)
(* show the candidate and the suffix "/0/0" at several distances, around   *)
(* the Window of the patterns of lines 129-130.                            *)
(***************************************************************************)
\* most lines of a raw text given to _post_process_kaek
MaxPostLines == 2

\* k characters that are no digit, slash or space
Filler(k) == [i \in 1..k |-> "x"]

\* '50097350003' of test_post_process_kaek_reconstruct_suffix
TestCandidate == <<"5", "0", "0", "9", "7", "3", "5", "0", "0", "0", "3">>

\* '... 50097350003 / 0 / 0  ΚΑΕΚ ...' of test_post_process_kaek_reconstruct_suffix
TestRaw == << ".", ".", ".", " ", "5", "0", "0", "9", "7", "3", "5", "0", "0", "0",
       "3", " ", "/", " ", "0", " ", "/", " ", "0", " ", " ", "Κ", "Α", "Ε",
       "Κ", " ", ".", ".", "." >>

\* "123456"
Candidate6 == <<"1", "2", "3", "4", "5", "6">>

Candidates ==
    { <<>>, Candidate6, TestCandidate, <<"1", "2", "3", "4", "5">>, Candidate6 \o ZeroSuffix,
      <<"1", "2", "3", "4", "5", "6", "/", "0", "/", "0", "5">>, <<"1", "2", "3", "4", "5", "6", "/">>, <<"1", "2", "/", " ", "/", "3", "4", "5", "6">> }

SpacedSuffix == <<"/", " ", "0", " ", "/", " ", "0">>

PostLines ==
    { TestRaw,
      Candidate6,
      SpacedSuffix,
      Candidate6 \o <<" ">> \o SpacedSuffix,
      Candidate6 \o Filler(Window) \o ZeroSuffix,
      Candidate6 \o Filler(Window + 1) \o ZeroSuffix,
      Label \o Candidate6 \o Filler(Window + 1) \o ZeroSuffix,
      ZeroSuffix \o Filler(Window) \o Candidate6,
      ZeroSuffix \o Filler(Window + 1) \o Candidate6 }

PostInputs ==
    {<<JoinWith(ls, <<"\n">>), v>> : ls \in WordLists(PostLines, MaxPostLines), v \in Candidates}

InitPost ==
    /\ pc = "call"
    /\ fn = "none"
    /\ arg \in PostInputs
    /\ frame = None
    /\ ret = None

PostProcessKaek ==
    /\ pc = "call"
    /\ pc' = "done"
    /\ fn' = "_post_process_kaek"
    /\ ret' = _post_process_kaek(arg[1], arg[2])
    /\ UNCHANGED <<arg, frame>>

NextPost == PostProcessKaek

SpecPost == InitPost /\ [][NextPost]_vars

\* a "/ 0 / 0" pattern, spaces around the slashes allowed, starts at
\* position q of line
SuffixPatternAt(line, q) ==
    \E e \in q..Len(line) :
        /\ line[q] = "/"
        /\ line[e] = "0"
        /\ SelectSeq(SubSeq(line, q, e), LAMBDA c : c \notin Whitespace) = ZeroSuffix

\* line holds the candidate with the pattern within the window after it
SuffixInWindow(line, candidate) ==
    \E p \in 1..Len(line) : \E k \in 0..Window :
        /\ p + Len(candidate) - 1 <= Len(line)
        /\ SubSeq(line, p, p + Len(candidate) - 1) = candidate
        /\ SuffixPatternAt(line, p + Len(candidate) + k)

(***************************************************************************)
(* C12: suffix reconstruction.  When the candidate is a plain digit string *)
(* and some line of the raw text holds the candidate with a "/ 0 / 0"      *)
(* pattern, spaces around the slashes allowed, within the window of 40     *)
(* characters after it, _post_process_kaek returns the candidate followed  *)
(* by exactly "/0/0"; a candidate that already contains "/0/0" gets no     *)
(* second suffix: nothing is appended to it.                               *)
(***************************************************************************)
C12_SuffixReconstruction ==
    (pc = "done" /\ fn = "_post_process_kaek")
        => /\ ( /\ arg[2] # <<>>
                /\ Range(arg[2]) \subseteq Digits
                /\ \E n \in DOMAIN splitlines(arg[1]) :
                       SuffixInWindow(splitlines(arg[1])[n], arg[2]) )
              => ret = arg[2] \o ZeroSuffix
           /\ Contains(arg[2], ZeroSuffix)
              => (Len(ret) <= Len(arg[2]) /\ ~Contains(ret, ZeroSuffix \o ZeroSuffix))

\* the suffix 40 characters after the candidate, no label in the line
C12_Witness ==
    /\ pc = "done"
    /\ fn = "_post_process_kaek"
    /\ arg = <<Candidate6 \o Filler(Window) \o ZeroSuffix, Candidate6>>
    /\ ret = Candidate6 \o ZeroSuffix

\* the test: '50097350003' and a line with '50097350003 / 0 / 0'
C12_WitnessTest ==
    /\ pc = "done"
    /\ fn = "_post_process_kaek"
    /\ arg = <<TestRaw, TestCandidate>>
    /\ ret = TestCandidate \o ZeroSuffix

\* a candidate with the suffix, and a line that shows the suffix again
C12_WitnessSuffixed ==
    /\ pc = "done"
    /\ fn = "_post_process_kaek"
    /\ arg = <<Candidate6 \o <<" ">> \o SpacedSuffix, Candidate6 \o ZeroSuffix>>
    /\ ret = Candidate6 \o ZeroSuffix

(***************************************************************************)
(* Evaluator (benchmark_evaluation.py).  A ground-truth row is the list of *)
(* its columns, each a header with its value; a column the row is too      *)
(* short for has no value (csv.DictReader gives None).  Floats are exact   *)
(* decimals, ratios are fractions.                                         *)
(***************************************************************************)
Field(h, v) == [h |-> h, some |-> TRUE, v |-> v]

\* a column whose value is None
NoValue(h) == [h |-> h, some |-> FALSE, v |-> <<>>]

\* row.get(h): the column of the last header equal to h, NoValue(h) without one
RowGet(row, h) ==
    LET at == {i \in DOMAIN row : row[i].h = h}
    IN IF at = {} THEN NoValue(h) ELSE row[CHOOSE i \in at : \A j \in at : j <= i]

\* row.get(h) or ""
RowGetOrEmpty(row, h) == RowGet(row, h).v

\* d.get(k, default)
DictGet(d, k, default) == IF k \in DOMAIN d THEN d[k] ELSE default

GROUPS == <<ColExisting, ColLegalized, ColRealized, ColTotal>>

HeaderAda == <<"Α", "Δ", "Α">>

HeaderKaek == <<"Κ", "Α", "Ε", "Κ">>

\* "Επώνυμο/ία " of line 217, with its trailing space
HeaderSurname == <<"Ε", "π", "ώ", "ν", "υ", "μ", "ο", "/", "ί", "α", " ">>

HeaderName == <<"Ό", "ν", "ο", "μ", "α">>

\* lines 202-206: the rows by stripped document id, a later row replacing
\* an earlier one, rows without an id left out
load_ground_truth(csv) ==
    LET stem(i) == Strip(RowGetOrEmpty(csv[i], HeaderAda))
    IN [s \in {stem(i) : i \in DOMAIN csv} \ {<<>>} |->
           csv[CHOOSE i \in DOMAIN csv :
                   stem(i) = s /\ \A j \in DOMAIN csv : stem(j) = s => j <= i]]

\* a file of the structured directory: none, bytes that are not UTF-8,
\* text that is not JSON, or the text of a JSON object
Missing == [kind |-> "missing"]

NotUtf8 == [kind |-> "bytes"]

NotJson == [kind |-> "text"]

Json(v) == [kind |-> "json", value |-> v]

\* lines 226-232; read_text raises UnicodeDecodeError, which is not caught
load_structured(structured_dir, stem, extractor) ==
    LET file == DictGet(structured_dir, <<stem, extractor>>, Missing)
    IN CASE file.kind = "missing" -> None
         [] file.kind = "bytes" -> Raised("UnicodeDecodeError")
         [] file.kind = "text" -> None
         [] file.kind = "json" -> file.value

\* not data, for None and JSON objects
Falsy(data) == DOMAIN data = {"none"} \/ DOMAIN data = {}

\* lines 209-214
split_multi(value) ==
    SelectSeq([i \in DOMAIN Split(ReplaceChar(value, "\n", " "), "/") |->
                  Strip(Split(ReplaceChar(value, "\n", " "), "/")[i])],
              LAMBDA p : p # <<>>)

\* lines 216-223
extract_ground_truth_owners(row) ==
    LET first(a, b) == IF split_multi(RowGet(row, a).v) # <<>>
                       THEN split_multi(RowGet(row, a).v)
                       ELSE split_multi(RowGet(row, b).v)
        surnames == first(HeaderSurname, Strip(HeaderSurname))
        names == first(HeaderName \o <<" ">>, HeaderName)
    IN [i \in 1..Min({Len(surnames), Len(names)}) |-> Owner(surnames[i], names[i])]

\* lines 234-240, for records whose two fields are strings
extract_json_owners(data) ==
    LET recs == DictGet(data, "Στοιχεία κυρίου του έργου", <<>>)
    IN [i \in DOMAIN recs |->
           Owner(DictGet(recs[i], "Επώνυμο/ία", <<>>), DictGet(recs[i], "Όνομα", <<>>))]

\* re.sub(r"/+", "/", v)
CollapseSlashes(v) == Without(v, {i \in DOMAIN v : i > 1 /\ v[i] = "/" /\ v[i - 1] = "/"})

\* lines 245-249, v a string
normalize_kaek(v) == CollapseSlashes(Remove(StripChars(Strip(v), {"\""}), " "))

\* re.sub(r"\s+", " ", s)
CollapseSpaces(s) ==
    LET t == [i \in DOMAIN s |-> IF s[i] \in Whitespace THEN " " ELSE s[i]]
    IN Without(t, {i \in DOMAIN t : i > 1 /\ t[i] = " " /\ t[i - 1] = " "})

\* lines 258-261, s a string
_norm_header(s) ==
    Strip(Replace(CollapseSpaces(ReplaceChar(s, NBSP, " ")), <<"-", " ", " ">>, <<"-", " ">>))

\* 10^n
RECURSIVE Pow10(_)
Pow10(n) == IF n = 0 THEN 1 ELSE 10 * Pow10(n - 1)

\* a + sign * b on exact decimals
DecAdd(a, sign, b) ==
    LET s == IF a.scale > b.scale THEN a.scale ELSE b.scale
    IN Canon(a.num * Pow10(s - a.scale) + sign * b.num * Pow10(s - b.scale), s)

DecAbs(a) == IF a.num < 0 THEN Dec(-a.num, a.scale) ELSE a

\* d < 1e-6 for d >= 0
Tiny(d) == IF d.scale < 6 THEN d.num = 0 ELSE d.num < Pow10(d.scale - 6)

\* Frac with 1.0 for d = 0
FracOne(n, d) == IF d = 0 THEN Dec(1, 0) ELSE [num |-> n, den |-> d]

\* n / d, 0.0 for d = 0 (lines 309-310, 341, 345-346), as the exact ratio
Frac(n, d) == IF d = 0 THEN Dec(0, 0) ELSE [num |-> n, den |-> d]

\* numerator and denominator of a ratio, 0.0 and 1.0 being over 1
Numer(x) == x.num

Denom(x) == IF "den" \in DOMAIN x THEN x.den ELSE 1

\* 2*p*r/(p+r) if p+r else 0.0 (lines 311, 347), as the exact ratio: the sum
\* p + r is sum / (Denom(p) * Denom(r)), the product 2*p*r is
\* 2 * Numer(p) * Numer(r) / (Denom(p) * Denom(r))
HarmonicMean(p, r) ==
    LET sum == Numer(p) * Denom(r) + Numer(r) * Denom(p)
    IN IF sum = 0 THEN Dec(0, 0) ELSE [num |-> 2 * Numer(p) * Numer(r), den |-> sum]

RECURSIVE DecSum(_)
DecSum(ds) == IF ds = <<>> THEN Dec(0, 0) ELSE DecAdd(Head(ds), 1, DecSum(Tail(ds)))

\* sum(ds) / len(ds), 0.0 for the empty list (lines 342, 348)
Mean(ds) == IF ds = <<>> THEN Dec(0, 0) ELSE [sum |-> DecSum(ds), over |-> Len(ds)]

\* math.sqrt(sum(d*d for d in ds) / len(ds)), as the mean it is the root of (line 349)
RootMeanSquare(ds) ==
    IF ds = <<>> THEN Dec(0, 0)
    ELSE [root |-> Mean([i \in DOMAIN ds |-> Canon(ds[i].num * ds[i].num, 2 * ds[i].scale)])]

\* _norm_header(h) for the headers h of gt.items(), in order (line 322)
RECURSIVE NormHeaders(_)
NormHeaders(gt) ==
    IF gt = <<>> THEN <<>> ELSE <<_norm_header(Head(gt).h)>> \o NormHeaders(Tail(gt))

\* col_header of line 319 for each group and key
ColHeaders ==
    [g \in Range(GROUPS) |->
        [k \in Range(COVERAGE_KEYS) |-> _norm_header(g \o <<" ", "-", " ">> \o k)]]

\* GtVal with 0.0 for a cell without ground truth
GtValZero(gt, headers, g, k) ==
    LET at == {i \in DOMAIN gt : headers[i] = ColHeaders[g][k]}
    IN IF at = {} \/ ~gt[Min(at)].some \/ parse_float(gt[Min(at)].v) = None THEN Dec(0, 0)
       ELSE parse_float(gt[Min(at)].v)

\* lines 319-325: the parsed value of the first column whose header is
\* that of the cell, None without one; headers is NormHeaders(gt)
GtVal(gt, headers, g, k) ==
    LET at == {i \in DOMAIN gt : headers[i] = ColHeaders[g][k]}
    IN IF at = {} \/ ~gt[Min(at)].some THEN None ELSE parse_float(gt[Min(at)].v)

\* lines 326-337: the absolute differences the cell adds to the lists,
\* one or none
CellDiffs(gt, headers, pred_cov, g, k) ==
    LET gt_val == GtVal(gt, headers, g, k)
        pred_val == DictGet(DictGet(pred_cov, g, <<>>), k, None)
    IN IF gt_val = None THEN <<>>
       ELSE IF IsFloat(pred_val) THEN <<DecAbs(DecAdd(pred_val, -1, gt_val))>>
       ELSE <<>>

\* the loop of lines 317-337 over the first n of the 28 cells
RECURSIVE CoverageDiffs(_, _, _, _)
CoverageDiffs(gt, headers, pred_cov, n) ==
    IF n = 0 THEN <<>>
    ELSE CoverageDiffs(gt, headers, pred_cov, n - 1)
         \o CellDiffs(gt, headers, pred_cov, GROUPS[(n - 1) \div 7 + 1], COVERAGE_KEYS[((n - 1) % 7) + 1])

\* lines 296-343: the metrics of one document.  Each local variable is
\* bound to its value once, as an element of a set of one element.
StemMetrics(gt, data) ==
    CHOOSE metrics \in
      { LET gt_kaek == normalize_kaek(RowGetOrEmpty(gt, HeaderKaek))
            pred_kaek == normalize_kaek(DictGet(data, "ΚΑΕΚ", <<>>))
            tp == m.tp
            fp == m.fp
            fn_ == m.fn
            exact == Len(SelectSeq(diffs, Tiny))
        IN [ kaek_match |-> equivalent_kaek(pred_kaek, gt_kaek),
             owners_tp |-> tp,
             owners_fp |-> fp,
             owners_fn |-> fn_,
             owners_precision |-> Frac(tp, tp + fp),
             owners_recall |-> Frac(tp, tp + fn_),
             owners_f1 |-> HarmonicMean(Frac(tp, tp + fp), Frac(tp, tp + fn_)),
             coverage_exact_cells |-> exact,
             coverage_total_cells |-> Len(diffs),
             coverage_exact_ratio |-> Frac(exact, Len(diffs)),
             coverage_mae |-> Mean(diffs),
             diffs |-> diffs ] :
        m \in {match_owners(o[1], o[2]) :
                  o \in {<<extract_ground_truth_owners(gt), extract_json_owners(data)>>}},
        diffs \in {CoverageDiffs(gt, headers,
                                 DictGet(data, "Στοιχεία Διαγράμματος Κάλυψης", <<>>), 28) :
                      headers \in {NormHeaders(gt)}} } : TRUE

\* the counters of lines 286-290 and the per_stem map before the loop
NoStems ==
    [ per_stem |-> <<>>, kaek_correct |-> 0, owners_tp |-> 0, owners_fp |-> 0,
      owners_fn |-> 0, cov_exact |-> 0, cov_total |-> 0, cov_diffs |-> <<>> ]

\* lines 291-344: the loop over the first n stems
RECURSIVE Loop(_, _, _, _, _)
Loop(stems, gt_rows, structured_dir, extractor, n) ==
    IF n = 0 THEN NoStems
    ELSE CHOOSE after \in
           { LET stem == stems[n]
             IN IF IsRaised(acc) THEN acc
                ELSE IF IsRaised(data) THEN data
                ELSE IF stem \notin DOMAIN gt_rows \/ Falsy(data) THEN acc
                ELSE CHOOSE added \in
                       { [ per_stem |-> (stem :> [k \in DOMAIN m \ {"diffs"} |-> m[k]])
                                        @@ acc.per_stem,
                           kaek_correct |-> acc.kaek_correct + (IF m.kaek_match THEN 1 ELSE 0),
                           owners_tp |-> acc.owners_tp + m.owners_tp,
                           owners_fp |-> acc.owners_fp + m.owners_fp,
                           owners_fn |-> acc.owners_fn + m.owners_fn,
                           cov_exact |-> acc.cov_exact + m.coverage_exact_cells,
                           cov_total |-> acc.cov_total + m.coverage_total_cells,
                           cov_diffs |-> acc.cov_diffs \o m.diffs ] :
                         m \in {StemMetrics(gt_rows[stem], data)} } : TRUE :
             acc \in {Loop(stems, gt_rows, structured_dir, extractor, n - 1)},
             data \in {load_structured(structured_dir, stems[n], extractor)} } : TRUE

\* lines 345-365
Aggregate(acc) ==
    LET n == Cardinality(DOMAIN acc.per_stem)
        tp == acc.owners_tp
    IN [ stems_evaluated |-> n,
         kaek_exact |-> acc.kaek_correct,
         kaek_exact_ratio |-> Frac(acc.kaek_correct, n),
         owners_tp |-> tp,
         owners_fp |-> acc.owners_fp,
         owners_fn |-> acc.owners_fn,
         owners_precision |-> Frac(tp, tp + acc.owners_fp),
         owners_recall |-> Frac(tp, tp + acc.owners_fn),
         owners_f1 |-> HarmonicMean(Frac(tp, tp + acc.owners_fp), Frac(tp, tp + acc.owners_fn)),
         coverage_exact_cells |-> acc.cov_exact,
         coverage_total_cells |-> acc.cov_total,
         coverage_exact_ratio |-> Frac(acc.cov_exact, acc.cov_total),
         coverage_mae |-> Mean(acc.cov_diffs),
         coverage_rmse |-> RootMeanSquare(acc.cov_diffs) ]

\* the report of one extractor, or the exception that leaves evaluate
Report(stems, gt_rows, structured_dir, extractor) ==
    CHOOSE report \in
      { IF IsRaised(acc) THEN acc
        ELSE [per_stem |-> acc.per_stem, aggregate |-> Aggregate(acc)] :
        acc \in {Loop(stems, gt_rows, structured_dir, extractor, Len(stems))} } : TRUE

\* lines 282-366
evaluate(stems, gt_rows, structured_dir) ==
    CHOOSE reports \in
      { IF IsRaised(first) THEN first
        ELSE IF IsRaised(second) THEN second
        ELSE [pdfplumber |-> first, docling |-> second] :
        first \in {Report(stems, gt_rows, structured_dir, "pdfplumber")},
        second \in {Report(stems, gt_rows, structured_dir, "docling")} } : TRUE

(***************************************************************************)
(* The evaluator's inputs: a ground-truth CSV of up to MaxRows rows with   *)
(* three coverage columns, a structured directory with a file or none for  *)
(* each of two documents and each extractor, and the --stems option.       *)
(***************************************************************************)
MaxRows == 2

StemA == <<"A">>

StemB == <<"B">>

\* a document without ground-truth row and without file
StemZ == <<"Z">>

\* sorted(keys), for the ids of the model's rows
Sorted(keys) == SelectSeq(<<StemA, StemB, StemZ>>, LAMBDA s : s \in keys)

GtHeaders ==
    << HeaderAda, HeaderKaek, HeaderSurname, HeaderName,
       ColExisting \o <<" ", "-", " ">> \o KeyFootprint,
       ColTotal \o <<" ", "-", " ", " ">> \o KeyFloors,
       ColRealized \o <<NBSP, "-", " ">> \o KeyFootprint >>

\* a row with its first n values, the others None
GtRow(values) ==
    [i \in DOMAIN GtHeaders |->
        IF i <= Len(values) THEN Field(GtHeaders[i], values[i]) ELSE NoValue(GtHeaders[i])]

RowA == GtRow(<<StemA, <<"1", "2", "3", "4", "5", "6">>, Pappas, Giorgos, <<"1", "0", "0", ",", "0">>, <<"2">>, <<"9", "5", ".", "5">>>>)

RowB ==
    GtRow(<<<<" ", "B", " ">>, <<"0", "1", "2", "3", "4", "5", "6">>, Pappas \o <<" ", "/", " ", "Χ">>, Giorgos \o <<"/", "Ψ">>,
            <<"x">>, <<>>, <<"1">>>>)

RowNoId == GtRow(<<<<>>, <<"1", "2", "3", "4", "5", "6">>, Pappas, Giorgos, <<"1", "0", "0", ",", "0">>, <<"2">>, <<"9", "5", ".", "5">>>>)

RowBlankId == GtRow(<<<<" ", " ">>, <<"1">>, Pappas, Giorgos, <<"1">>, <<"1">>, <<"1">>>>)

RowShortA == GtRow(<<StemA, <<"1">>>>)

\* a row of B whose cells hold 0, nothing and 0,00
RowZero == GtRow(<<StemB, <<"1">>, <<>>, <<>>, <<"0">>, <<>>, <<"0", ",", "0", "0">>>>)

GtRowPool == {RowA, RowB, RowNoId, RowBlankId, RowShortA, RowZero}

CsvFiles == UNION {[1..k -> GtRowPool] : k \in 0..MaxRows}

StructuredRecord(stem, kaek, owners, coverage) ==
    ("ΑΔΑ" :> stem)
    @@ ("ΚΑΕΚ" :> kaek)
    @@ ("Στοιχεία κυρίου του έργου" :> owners)
    @@ ("Στοιχεία Διαγράμματος Κάλυψης" :> coverage)

OwnerPappas == ("Επώνυμο/ία" :> Pappas) @@ ("Όνομα" :> Giorgos)

\* a record as build_structured writes it: 28 numbers
RecordFull ==
    StructuredRecord(StemA, <<"1", "2", "3", "4", "5", "6">>, <<OwnerPappas>>,
        orient_coverage((KeyFootprint :> <<Dec(100, 0), None, Dec(955, 1), None>>)
                        @@ (KeyFloors :> <<None, None, None, Dec(3, 0)>>)))

\* a record with a null cell, a string cell, a missing group and one number
RecordHoles ==
    StructuredRecord(StemA, <<"0", "1", "2", "3", "4", "5", "6">>, <<>>,
        (ColExisting :> (KeyFootprint :> None))
        @@ (ColTotal :> (KeyFloors :> [str |-> "x"]))
        @@ (ColRealized :> (KeyFootprint :> Dec(95, 0))))

\* the record build_structured writes when it finds no coverage row: 28
\* times 0.0
RecordZero == StructuredRecord(StemB, <<"1">>, <<>>, orient_coverage(<<>>))

DoclingFiles == {Missing, NotUtf8, NotJson, Json(<<>>), Json(RecordFull), Json(RecordHoles)}

PdfplumberFiles == {Missing, Json(RecordFull)}

\* the files of the second document
OtherDoclingFiles == {Missing, NotUtf8, Json(RecordHoles), Json(RecordZero)}

\* the files a directory holds: of either extractor for the first document,
\* of docling only for the second
StructuredDirs ==
    { [p \in {StemA, StemB} \X {"pdfplumber", "docling"} |->
          IF p[2] = "docling" THEN (IF p[1] = StemA THEN a ELSE b)
          ELSE IF p[1] = StemA THEN q ELSE Missing] :
      a \in DoclingFiles, b \in OtherDoclingFiles, q \in PdfplumberFiles }

\* args.stems: none, or a list of documents, which may name one twice
StemsOptions == {<<>>, <<StemB, StemA>>, <<StemA, StemZ>>, <<StemA, StemA>>}

InitEvaluate ==
    /\ pc = "call"
    /\ fn = "none"
    /\ arg \in CsvFiles \X StructuredDirs \X StemsOptions
    /\ frame = None
    /\ ret = None

\* lines 376-377 of main
LoadGroundTruth ==
    /\ pc = "call"
    /\ pc' = "loaded"
    /\ fn' = "load_ground_truth"
    /\ frame' = [ gt_rows |-> load_ground_truth(arg[1]),
                  stems |-> IF arg[3] # <<>> THEN arg[3]
                            ELSE Sorted(DOMAIN load_ground_truth(arg[1])) ]
    /\ UNCHANGED <<arg, ret>>

\* line 378 of main
Evaluate ==
    /\ pc = "loaded"
    /\ pc' = "done"
    /\ fn' = "evaluate"
    /\ ret' = evaluate(frame.stems, frame.gt_rows, arg[2])
    /\ UNCHANGED <<arg, frame>>

NextEvaluate == LoadGroundTruth \/ Evaluate

SpecEvaluate == InitEvaluate /\ [][NextEvaluate]_vars

\* the cells of a ground-truth row that have a numeric ground truth
GtPresent(gt) ==
    LET headers == NormHeaders(gt)
    IN {c \in (1..4) \X (1..7) : GtVal(gt, headers, GROUPS[c[1]], COVERAGE_KEYS[c[2]]) # None}

\* the sum of f over the documents of a per_stem map
RECURSIVE SumPresent(_, _)
SumPresent(gt_rows, scored) ==
    IF scored = {} THEN 0
    ELSE LET s == CHOOSE s \in scored : TRUE
         IN Cardinality(GtPresent(gt_rows[s])) + SumPresent(gt_rows, scored \ {s})

(***************************************************************************)
(* C13: in the coverage evaluation a cell whose ground truth is present    *)
(* but whose predicted value is missing or not a number is left out of MAE *)
(* and RMSE and is still counted in the cell total of the exact-cell ratio *)
(* as a non-exact cell: the total of a document is the number of its cells *)
(* with a ground truth, and the aggregate total is the sum over the scored *)
(* documents.  evaluate does not do this: line 334 counts the cell only    *)
(* under the isinstance test of line 329.                                  *)
(***************************************************************************)
C13_MissingCounted ==
    (pc = "done" /\ fn = "evaluate" /\ ~IsRaised(ret))
        => \A e \in {"pdfplumber", "docling"} :
               /\ \A s \in DOMAIN ret[e].per_stem :
                      ret[e].per_stem[s].coverage_total_cells
                          = Cardinality(GtPresent(frame.gt_rows[s]))
               /\ ret[e].aggregate.coverage_total_cells
                      = SumPresent(frame.gt_rows, DOMAIN ret[e].per_stem)

\* the document with three ground-truth cells and one predicted number
C13_Diverges ==
    /\ pc = "done"
    /\ fn = "evaluate"
    /\ ~IsRaised(ret)
    /\ StemA \in DOMAIN ret.docling.per_stem
    /\ Cardinality(GtPresent(frame.gt_rows[StemA])) = 3
    /\ ret.docling.per_stem[StemA].coverage_total_cells = 1
    /\ ret.docling.per_stem[StemA].coverage_exact_cells = 0
    /\ ret.docling.per_stem[StemA].coverage_mae = [sum |-> Dec(5, 1), over |-> 1]

\* the file of a document is there and can be decoded
Decodable(structured_dir, stem, extractor) ==
    DictGet(structured_dir, <<stem, extractor>>, Missing).kind = "json"

(***************************************************************************)
(* C14: a document is scored exactly when it has a ground-truth row with a *)
(* non-empty document id and a present, decodable structured record; any   *)
(* other document gives no per-document entry, and neither aborts the run  *)
(* nor changes the metrics of the other documents, which are those of the  *)
(* document's own row and record.  evaluate does not do this: a file that  *)
(* is not UTF-8 raises UnicodeDecodeError out of load_structured (line 230 *)
(* catches JSONDecodeError only) and ends the run.                         *)
(***************************************************************************)
C14_ScoredExactly ==
    (pc = "done" /\ fn = "evaluate")
        => /\ ~IsRaised(ret)
           /\ \A e \in {"pdfplumber", "docling"} :
                  /\ DOMAIN ret[e].per_stem
                         = {s \in Range(frame.stems) :
                                s \in DOMAIN frame.gt_rows /\ Decodable(arg[2], s, e)}
                  /\ \A s \in DOMAIN ret[e].per_stem :
                         \A k \in DOMAIN ret[e].per_stem[s] :
                             ret[e].per_stem[s][k]
                                 = StemMetrics(frame.gt_rows[s], load_structured(arg[2], s, e))[k]

\* the record of B is not UTF-8, that of A is sound: the run ends with the
\* exception and A is not scored
C14_Aborts ==
    /\ pc = "done"
    /\ fn = "evaluate"
    /\ frame.stems = <<StemA, StemB>>
    /\ arg[2][<<StemA, "docling">>] = Json(RecordFull)
    /\ arg[2][<<StemB, "docling">>] = NotUtf8
    /\ ret = Raised("UnicodeDecodeError")

(***************************************************************************)
(* The two patterns of extract_kaek, written as conditions on positions:   *)
(* reference for the order of the strategies.                              *)
(***************************************************************************)
\* str[q..e] is a run of 6 or more digits and slashes that ends where the
\* run ends
CodeRun(str, q, e) ==
    /\ q + 5 <= e
    /\ e <= Len(str)
    /\ \A k \in q..e : str[k] \in CodeChars
    /\ (e = Len(str) \/ str[e + 1] \notin CodeChars)

\* whitespace, at most one colon or hyphen, whitespace
LabelSeparator(sep) ==
    \E i \in 0..Len(sep) : \E j \in {i, i + 1} :
        /\ j <= Len(sep)
        /\ \A k \in 1..i : sep[k] \in Whitespace
        /\ \A k \in (i + 1)..j : sep[k] \in {":", "-"}
        /\ \A k \in (j + 1)..Len(sep) : sep[k] \in Whitespace

\* the codes the label at p is followed by, after a separator
RegexCodes(text, p) ==
    {SubSeq(text, c[1], c[2]) :
        c \in {c \in ((p + 4)..Len(text)) \X ((p + 4)..Len(text)) :
                  /\ CodeRun(text, c[1], c[2])
                  /\ LabelSeparator(SubSeq(text, p + 4, c[1] - 1))}}

\* the codes the label at p is followed by, after characters that are no
\* digit and no slash
LineCodes(line, p) ==
    {SubSeq(line, c[1], c[2]) :
        c \in {c \in ((p + 4)..Len(line)) \X ((p + 4)..Len(line)) :
                  /\ CodeRun(line, c[1], c[2])
                  /\ \A k \in (p + 4)..(c[1] - 1) : line[k] \notin CodeChars}}

\* the code is the candidate tidied, with or without the suffix
Completed(cand, code) ==
    code \in {CollapseSlashes(cand), CollapseSlashes(cand \o ZeroSuffix)}

\* the label occurrences of str where a pattern finds a code
RegexHits(text) == {p \in Find(text, Label) : RegexCodes(text, p) # {}}

LineHits(line) == {p \in Find(line, Label) : LineCodes(line, p) # {}}

(***************************************************************************)
(* C15: the strategies are tried in a fixed order and the first success    *)
(* wins.  If the label-then-code regex matches anywhere in the text, the   *)
(* code of the record is the regex's first match, completed by the suffix  *)
(* and the tidying only, also when an earlier line matches the line scan;  *)
(* if the regex matches nowhere and the line scan matches in some line,    *)
(* it is the match of the first such line; the table-cell scan gives the   *)
(* candidate only when both found nothing.                                 *)
(***************************************************************************)
C15_StrategyOrder ==
    (pc = "done" /\ fn = "build_structured")
        => LET text == arg[2]
               lines == splitlines(text)
               hit == {n \in DOMAIN lines : LineHits(lines[n]) # {}}
           IN /\ RegexHits(text) # {}
                 => \E c \in RegexCodes(text, Min(RegexHits(text))) :
                        Completed(c, ret["ΚΑΕΚ"])
              /\ (RegexHits(text) = {} /\ hit # {})
                 => \E c \in LineCodes(lines[Min(hit)], Min(LineHits(lines[Min(hit)]))) :
                        Completed(c, ret["ΚΑΕΚ"])
              /\ (RegexHits(text) = {} /\ hit = {} /\ TableScan(text) # <<>>)
                 => Completed(TableScan(text), ret["ΚΑΕΚ"])

\* the first line matches the line scan only, the second the regex: the
\* regex's code wins
C15_Witness ==
    /\ pc = "done"
    /\ fn = "build_structured"
    /\ arg[2] = LabelWordCode \o <<"\n">> \o LabelledCode
    /\ ret["ΚΑΕΚ"] = <<"1", "2", "3", "4", "5", "6">>

\* the table-cell scan gives the code when nothing else does
C15_WitnessTable ==
    /\ pc = "done"
    /\ fn = "build_structured"
    /\ arg[2] = CodeBeforeLabel
    /\ FirstCode(arg[2]) = <<>>
    /\ ret["ΚΑΕΚ"] = <<"2", "2", "2", "2", "2", "2">>

(***************************************************************************)
(* A code without the label.                                               *)
(***************************************************************************)
\* line[q..e] is a whole run of 6 or more digits, and after it, spaces
\* allowed, comes the "/0/0" pattern
DigitsThenSuffix(line, q, e) ==
    /\ q + 5 <= e
    /\ e <= Len(line)
    /\ \A k \in q..e : line[k] \in Digits
    /\ (q = 1 \/ line[q - 1] \notin Digits)
    /\ \E s \in (e + 1)..Len(line) :
           /\ \A k \in (e + 1)..(s - 1) : line[k] \in Whitespace
           /\ SuffixPatternAt(line, s)

\* the runs of line n of text that the pattern follows, as <<n, q, e>>
SuffixedDigits(text) ==
    LET lines == splitlines(text)
    IN {t \in (DOMAIN lines) \X (1..Len(text)) \X (1..Len(text)) :
           DigitsThenSuffix(lines[t[1]], t[2], t[3])}

\* The statement as the specification words it: a text without the label
\* gives the empty code.  "123456 / 0 / 0" gives "123456/0/0".
C16_EmptyWithoutLabel ==
    (pc = "done" /\ fn = "build_structured" /\ ~Contains(arg[2], Label))
        => ret["ΚΑΕΚ"] = <<>>

(***************************************************************************)
(* C16: a text without the label ΚΑΕΚ gives the empty code, whatever digit *)
(* runs it holds, unless one of its lines holds a run of 6 or more digits  *)
(* followed by "/0/0" (spaces around the slashes allowed): then the code   *)
(* is the first such run of the first such line, followed by "/0/0".       *)
(***************************************************************************)
C16_LabelOrSuffix ==
    (pc = "done" /\ fn = "build_structured" /\ ~Contains(arg[2], Label))
        => LET lines == splitlines(arg[2])
               runs == SuffixedDigits(arg[2])
           IN IF runs = {} THEN ret["ΚΑΕΚ"] = <<>>
              ELSE \E t \in runs :
                       /\ \A u \in runs : t[1] < u[1] \/ (t[1] = u[1] /\ t[2] <= u[2])
                       /\ ret["ΚΑΕΚ"] = SubSeq(lines[t[1]], t[2], t[3]) \o ZeroSuffix

\* no label, and the code is recovered from the digits before "/ 0 / 0"
C16_Witness ==
    /\ pc = "done"
    /\ fn = "build_structured"
    /\ ~Contains(arg[2], Label)
    /\ \E ls \in WordLists(TextLines, MaxTextLines) :
           /\ arg[2] = JoinWith(ls, <<"\n">>)
           /\ Len(ls) >= 2
           /\ ls[Len(ls)] = SuffixedCode
    /\ ret["ΚΑΕΚ"] = <<"1", "2", "3", "4", "5", "6", "/", "0", "/", "0">>

\* no label, no suffixed run: no code
C16_WitnessEmpty ==
    /\ pc = "done"
    /\ fn = "build_structured"
    /\ arg[2] = BrokenCoverageLine
    /\ ret["ΚΑΕΚ"] = <<>>

(***************************************************************************)
(* C17: for every raw text, the registry code of the built record holds no *)
(* space and no two consecutive slashes.                                   *)
(***************************************************************************)
C17_FinalTidy ==
    (pc = "done" /\ fn = "build_structured")
        => /\ " " \notin Range(ret["ΚΑΕΚ"])
           /\ \A i \in 1..(Len(ret["ΚΑΕΚ"]) - 1) :
                  ~(ret["ΚΑΕΚ"][i] = "/" /\ ret["ΚΑΕΚ"][i + 1] = "/")

\* the candidate "12//3456/" of "ΚΑΕΚ: 12//3456/" loses its doubled slash
C17_Witness ==
    /\ pc = "done"
    /\ fn = "build_structured"
    /\ arg[2] = LabelledSlashes
    /\ FirstCode(arg[2]) = <<"1", "2", "/", "/", "3", "4", "5", "6", "/">>
    /\ ret["ΚΑΕΚ"] = <<"1", "2", "/", "3", "4", "5", "6", "/">>

(***************************************************************************)
(* The shape of a code.                                                    *)
(***************************************************************************)
\* digits, or digits "/" digits "/" digits
CanonicalShape(code) ==
    /\ code # <<>>
    /\ Range(code) \subseteq Digits \cup {"/"}
    /\ code[1] # "/"
    /\ code[Len(code)] # "/"
    /\ \A i \in 1..(Len(code) - 1) : ~(code[i] = "/" /\ code[i + 1] = "/")
    /\ Cardinality({i \in DOMAIN code : code[i] = "/"}) \in {0, 2}

(***************************************************************************)
(* C18: every non-empty registry code of a built record has the canonical  *)
(* shape: digits, optionally followed by "/digit/digit"; it neither starts *)
(* nor ends with a slash, is not made of slashes only, and has at most two *)
(* parts after the digits.  "ΚΑΕΚ: 12//3456/" gives "12/3456/".            *)
(***************************************************************************)
C18_CanonicalShape ==
    (pc = "done" /\ fn = "build_structured" /\ ret["ΚΑΕΚ"] # <<>>)
        => CanonicalShape(ret["ΚΑΕΚ"])

\* a code that ends with a slash
C18_TrailingSlash ==
    /\ pc = "done"
    /\ fn = "build_structured"
    /\ arg[2] = LabelledSlashes
    /\ ret["ΚΑΕΚ"] = <<"1", "2", "/", "3", "4", "5", "6", "/">>

(***************************************************************************)
(* TableBlockParser on short lines.                                        *)
(***************************************************************************)
MaxTableLines == 3

\* "|a|b|"
TwoCells == <<"|", "a", "|", "b", "|">>

\* " | a ": a row that starts with a space and has no closing delimiter
OpenRow == <<" ", "|", " ", "a", " ">>

\* "|-|--|"
RuleLine == <<"|", "-", "|", "-", "-", "|">>

\* "|-|a|": dashes in one cell only
HalfRule == <<"|", "-", "|", "a", "|">>

\* "| |a||": an empty cell inside, two delimiters at the end
EmptyInside == <<"|", " ", "|", "a", "|", "|">>

\* "a|b": a delimiter, but not at the start
NotLed == <<"a", "|", "b">>

TableLines == {TwoCells, OpenRow, RuleLine, HalfRule, EmptyInside, NotLed, <<"|">>, <<"x">>, <<>>}

TableTexts == {JoinWith(ls, <<"\n">>) : ls \in WordLists(TableLines, MaxTableLines)}

InitTables ==
    /\ pc = "call"
    /\ fn = "none"
    /\ arg \in TableTexts
    /\ frame = None
    /\ ret = None

\* for tbl_lines in extract_docling_tables(text): tbl = parse_markdown_table(tbl_lines)
ExtractTables ==
    /\ pc = "call"
    /\ pc' = "done"
    /\ fn' = "extract_docling_tables"
    /\ ret' = LET tables == extract_docling_tables(arg)
              IN [k \in DOMAIN tables |-> parse_markdown_table(tables[k])]
    /\ UNCHANGED <<arg, frame>>

NextTables == ExtractTables

SpecTables == InitTables /\ [][NextTables]_vars

\* the first character of line that is no whitespace is the delimiter
DelimiterLed(line) ==
    \E p \in DOMAIN line : line[p] = "|" /\ \A j \in 1..(p - 1) : line[j] \in Whitespace

\* the cells of a delimiter-led line: what lies between the delimiters of
\* the line without its outer whitespace and outer delimiters, trimmed; one
\* empty cell when nothing but delimiters is left
RowOf(line) ==
    LET s == Strip(line)
        inner == {i \in DOMAIN s : s[i] # "|"}
    IN IF inner = {} THEN << <<>> >>
       ELSE LET lo == Min(inner)
                hi == CHOOSE i \in inner : \A j \in inner : j <= i
                cut == {i \in lo..hi : s[i] = "|"}
                from(k) == IF k = 1 THEN lo
                           ELSE 1 + CHOOSE i \in cut : Cardinality({j \in cut : j <= i}) = k - 1
                to(k) == IF k = Cardinality(cut) + 1 THEN hi
                         ELSE (CHOOSE i \in cut : Cardinality({j \in cut : j <= i}) = k) - 1
            IN [k \in 1..(Cardinality(cut) + 1) |-> Strip(SubSeq(s, from(k), to(k)))]

\* every cell is one or more dashes
RuleRow(row) == \A k \in DOMAIN row : row[k] # <<>> /\ Range(row[k]) = {"-"}

\* the rows of the lines a..b
RowsOf(lines, a, b) ==
    SelectSeq([i \in 1..(b - a + 1) |-> RowOf(lines[a + i - 1])], LAMBDA row : ~RuleRow(row))

\* a..b is a maximal run of delimiter-led lines
MaximalRun(lines, a, b) ==
    /\ a <= b
    /\ \A i \in a..b : DelimiterLed(lines[i])
    /\ (a = 1 \/ ~DelimiterLed(lines[a - 1]))
    /\ (b = Len(lines) \/ ~DelimiterLed(lines[b + 1]))

(***************************************************************************)
(* C19: the blocks are the maximal runs of delimiter-led lines, in text    *)
(* order: the k-th block holds the lines of the k-th run, so every         *)
(* delimiter-led line is in exactly one block, two such lines share a      *)
(* block exactly when only delimiter-led lines lie between them, and the   *)
(* run that ends the text is a block too.  In a block each line is one row *)
(* of trimmed cells, outer empty cells removed, and a row is dropped       *)
(* exactly when each of its cells is one or more dashes.                   *)
(***************************************************************************)
C19_Partition ==
    (pc = "done" /\ fn = "extract_docling_tables")
        => LET lines == splitlines(arg)
               runs == {r \in (DOMAIN lines) \X (DOMAIN lines) : MaximalRun(lines, r[1], r[2])}
               run(k) == CHOOSE r \in runs : Cardinality({q \in runs : q[1] <= r[1]}) = k
           IN /\ Len(ret) = Cardinality(runs)
              /\ \A k \in 1..Len(ret) : ret[k] = RowsOf(lines, run(k)[1], run(k)[2])

\* a block of a rule line only, a line between, and a block open at the end
C19_Witness ==
    /\ pc = "done"
    /\ fn = "extract_docling_tables"
    /\ arg = JoinWith(<<RuleLine, <<"x">>, OpenRow>>, <<"\n">>)
    /\ ret = << <<>>, << <<<<"a">>>> >> >>

\* one block of three lines: the rule line between two rows is dropped
C19_WitnessRule ==
    /\ pc = "done"
    /\ fn = "extract_docling_tables"
    /\ arg = JoinWith(<<TwoCells, RuleLine, EmptyInside>>, <<"\n">>)
    /\ ret = << << <<<<"a">>, <<"b">>>>, <<<<>>, <<"a">>>> >> >>

(***************************************************************************)
(* Table blocks with fewer than 2 rows.                                    *)
(***************************************************************************)
\* the lines of the blocks of fewer than 2 rows
ShortBlockLines(lines) ==
    {i \in DOMAIN lines :
        \E a \in 1..i : \E b \in i..Len(lines) :
            MaximalRun(lines, a, b) /\ Len(RowsOf(lines, a, b)) < 2}

\* the text without the blocks of fewer than 2 rows
WithoutShortBlocks(text) ==
    JoinWith(Without(splitlines(text), ShortBlockLines(splitlines(text))), <<"\n">>)

\* the rows that stand alone in their block
LoneRows(text) ==
    LET lines == splitlines(text)
    IN {RowsOf(lines, r[1], r[2])[1] :
           r \in {r \in (DOMAIN lines) \X (DOMAIN lines) :
                     MaximalRun(lines, r[1], r[2]) /\ Len(RowsOf(lines, r[1], r[2])) = 1}}

\* a row of a metric label and 4 cells, none of them a group name
MetricRow(row) ==
    /\ Len(row) = 5
    /\ row[1] \in Range(COVERAGE_KEYS)
    /\ \A label \in GroupLabels : ~Contains(row[2], label)

C20_WitnessOwner ==
    /\ pc = "done"
    /\ fn = "build_structured"
    /\ arg[2] = JoinWith(<<HeaderLine, ProseLine, OwnerLine>>, <<"\n">>)
    /\ ret["Στοιχεία κυρίου του έργου"] = <<>>

(***************************************************************************)
(* OwnerTableMapper on texts of owner tables: up to MaxOwnerLines lines,   *)
(* each the header row, one of two owner rows or a word; and the header    *)
(* row with up to MaxDataRows rows under it, well formed or not.           *)
(***************************************************************************)
MaxOwnerLines == 5

MaxDataRows == 2

\* a second owner: "| ΚΑΛΟΣ | ΝΙΚΟΣ | Ιδιοκτήτης | 50,5 | Ψιλή κυριότητα |"
SecondOwnerCells == <<<<"Κ", "Α", "Λ", "Ο", "Σ">>, <<"Ν", "Ι", "Κ", "Ο", "Σ">>, OwnerCells[3], <<"5", "0", ",", "5">>, <<"Ψ", "ι", "λ", "ή", " ", "κ", "υ", "ρ", "ι", "ό", "τ", "η", "τ", "α">>>>

SecondOwnerLine == MarkdownRow(SecondOwnerCells)

\* no surname and no role
BlankRow == MarkdownRow(<< <<>>, <<"Ν", "Ι", "Κ", "Ο", "Σ">>, <<>>, <<"7">>, <<>> >>)

\* a role only, the share empty
RoleOnlyRow == MarkdownRow(<< <<>>, <<>>, OwnerCells[3], <<>>, <<>> >>)

\* one cell less than the header
ShortRow == MarkdownRow(<<<<"Κ", "Α", "Λ", "Ο", "Σ">>, <<"Ν", "Ι", "Κ", "Ο", "Σ">>, OwnerCells[3], <<"5">>>>)

\* one cell more than the header
LongRow == MarkdownRow(<<<<"Κ", "Α", "Λ", "Ο", "Σ">>, <<"Ν", "Ι", "Κ", "Ο", "Σ">>, OwnerCells[3], <<"5">>, <<>>, <<"z">>>>)

\* a share with a thousands separator: "1.000,5"
ThousandsRow == MarkdownRow(<<<<"Κ", "Α", "Λ", "Ο", "Σ">>, <<>>, <<>>, <<"1", ".", "0", "0", "0", ",", "5">>, <<>> >>)

OwnerTableLines == {HeaderLine, OwnerLine, SecondOwnerLine, <<"x">>}

DataRows ==
    {OwnerLine, SecondOwnerLine, BlankRow, RoleOnlyRow, ShortRow, LongRow, ThousandsRow}

OwnerTexts ==
    {JoinWith(ls, <<"\n">>) : ls \in WordLists(OwnerTableLines, MaxOwnerLines)}
    \cup {JoinWith(<<HeaderLine>> \o rows, <<"\n">>) : rows \in WordLists(DataRows, MaxDataRows)}

InitOwnerTables ==
    /\ pc = "call"
    /\ fn = "none"
    /\ arg \in OwnerTexts
    /\ frame = None
    /\ ret = None

ParseDoclingOwners ==
    /\ pc = "call"
    /\ pc' = "done"
    /\ fn' = "parse_docling_owners"
    /\ ret' = parse_docling_owners(arg)
    /\ UNCHANGED <<arg, frame>>

NextOwnerTables == ParseDoclingOwners

SpecOwnerTables == InitOwnerTables /\ [][NextOwnerTables]_vars

(***************************************************************************)
(* The owners of a table, stated on its rows.                              *)
(***************************************************************************)
\* the row's cells in small letters hold the surname and the share label
HasOwnerLabels(row) ==
    /\ \E k \in DOMAIN row : Lower(row[k]) = LabelSurname
    /\ \E k \in DOMAIN row : Lower(row[k]) = LabelShare

\* the rows of the tables of text, table by table
TablesOf(text) ==
    LET lines == splitlines(text)
        runs == {r \in (DOMAIN lines) \X (DOMAIN lines) : MaximalRun(lines, r[1], r[2])}
        run(k) == CHOOSE r \in runs : Cardinality({q \in runs : q[1] <= r[1]}) = k
    IN [k \in 1..Cardinality(runs) |-> RowsOf(lines, run(k)[1], run(k)[2])]

\* rows is an owner table: 2 rows or more, the labels in one of the first 3
OwnerTable(rows) == Len(rows) >= 2 /\ \E i \in 1..3 : i <= Len(rows) /\ HasOwnerLabels(rows[i])

\* the position of the header in an owner table
HeaderRow(rows) == Min({i \in DOMAIN rows : HasOwnerLabels(rows[i])})

\* the trimmed cell of row under the last cell of the header that is label
\* in small letters, empty without one
CellUnder(header, row, label) ==
    LET under == {k \in DOMAIN header \cap DOMAIN row : Lower(header[k]) = label}
    IN IF under = {} THEN <<>>
       ELSE Strip(row[CHOOSE k \in under : \A j \in under : j <= k])

\* the row under the header gives an owner
GivesOwner(header, row) ==
    /\ Len(row) >= Len(header)
    /\ ~(CellUnder(header, row, LabelSurname) = <<>> /\ CellUnder(header, row, LabelRole) = <<>>)

\* the share cell as a number: a comma for the decimal point, 0.0 when the
\* cell is empty or no number
ShareOf(cell) ==
    LET dotted == [i \in DOMAIN cell |-> IF cell[i] = "," THEN "." ELSE cell[i]]
    IN IF cell = <<>> \/ IsRaised(PyFloat(dotted)) THEN Dec(0, 0) ELSE PyFloat(dotted)

\* surname, name, role and right of entry are the cells of row, its share
\* the number of the share cell
EntryOf(header, row, entry) ==
    /\ entry["Επώνυμο/ία"] = CellUnder(header, row, LabelSurname)
    /\ entry["Όνομα"] = CellUnder(header, row, LabelName)
    /\ entry["Ιδιότητα"] = CellUnder(header, row, LabelRole)
    /\ entry["Τύπος δικαιώματος"] = CellUnder(header, row, LabelRight)
    /\ entry["Ποσοστό"] = ShareOf(CellUnder(header, row, LabelShare))

\* the rows of an owner table that give an owner, in order
OwnerRowsOf(rows) ==
    IF ~OwnerTable(rows) THEN <<>>
    ELSE SelectSeq([i \in 1..(Len(rows) - HeaderRow(rows)) |-> rows[HeaderRow(rows) + i]],
                   LAMBDA row : GivesOwner(rows[HeaderRow(rows)], row))

\* the number of owners the tables before table k give
OwnersBefore(tables, k) ==
    Len(Join([j \in 1..(k - 1) |-> OwnerRowsOf(tables[j])]))

\* The statement as the specification words it: the owners are those of
\* the first owner table, a later one gives none.
C21_FirstTableOnly ==
    (pc = "done" /\ fn = "parse_docling_owners")
        => LET tables == TablesOf(arg)
               owner == {k \in DOMAIN tables : OwnerTable(tables[k])}
           IN Len(ret) = IF owner = {} THEN 0 ELSE Len(OwnerRowsOf(tables[Min(owner)]))

(***************************************************************************)
(* C21: the owners come from every table of the text that has 2 rows or    *)
(* more and the surname and the share label in one of its first 3 rows,    *)
(* not from the first such table only: the owners of the tables follow     *)
(* one another in text order, one owner for each row that gives one.       *)
(***************************************************************************)
C21_EveryOwnerTable ==
    (pc = "done" /\ fn = "parse_docling_owners")
        => LET tables == TablesOf(arg)
           IN /\ Len(ret) = OwnersBefore(tables, Len(tables) + 1)
              /\ \A k \in DOMAIN tables : \A i \in DOMAIN OwnerRowsOf(tables[k]) :
                     EntryOf(tables[k][HeaderRow(tables[k])], OwnerRowsOf(tables[k])[i],
                             ret[OwnersBefore(tables, k) + i])

\* two owner tables with a line between them: an owner from each
C21_Witness ==
    /\ pc = "done"
    /\ fn = "parse_docling_owners"
    /\ arg = JoinWith(<<HeaderLine, OwnerLine, <<"x">>, HeaderLine, SecondOwnerLine>>, <<"\n">>)
    /\ Len(ret) = 2
    /\ ret[1]["Επώνυμο/ία"] = OwnerCells[1]
    /\ ret[2]["Επώνυμο/ία"] = SecondOwnerCells[1]
    /\ ret[2]["Ποσοστό"] = Dec(505, 1)

(***************************************************************************)
(* C22: the header of an owner table is found by its labels, not by its    *)
(* position: it is the first of the table's first 3 rows whose cells in    *)
(* small letters hold the surname and the share label.  Only the rows      *)
(* after it give owners, so a row before the header never does, and a      *)
(* table whose first row with the labels is the 4th or a later one gives   *)
(* no owner at all.                                                        *)
(***************************************************************************)
C22_HeaderByLabels ==
    (pc = "done" /\ fn = "parse_docling_owners")
        => LET tables == TablesOf(arg)
               labelled(k) == {i \in DOMAIN tables[k] : HasOwnerLabels(tables[k][i])}
               after(k) == IF labelled(k) = {} \/ Len(tables[k]) < 2 THEN 0
                           ELSE IF Min(labelled(k)) > 3 THEN 0
                           ELSE Len(SelectSeq(SubSeq(tables[k], Min(labelled(k)) + 1, Len(tables[k])),
                                              LAMBDA row : GivesOwner(tables[k][Min(labelled(k))], row)))
               total == Len(Join([k \in DOMAIN tables |-> [i \in 1..after(k) |-> i]]))
           IN Len(ret) = total

\* an owner row before the header in the second row: one owner, the one
\* after the header
C22_Witness ==
    /\ pc = "done"
    /\ fn = "parse_docling_owners"
    /\ arg = JoinWith(<<OwnerLine, HeaderLine, SecondOwnerLine>>, <<"\n">>)
    /\ Len(ret) = 1
    /\ ret[1]["Επώνυμο/ία"] = SecondOwnerCells[1]

\* the header in the 4th row: no owner
C22_WitnessFourth ==
    /\ pc = "done"
    /\ fn = "parse_docling_owners"
    /\ arg = JoinWith(<<OwnerLine, OwnerLine, SecondOwnerLine, HeaderLine, OwnerLine>>, <<"\n">>)
    /\ ret = <<>>

(***************************************************************************)
(* C23: under the header, a row gives an owner exactly when it has at      *)
(* least as many cells as the header and its surname and role cells are    *)
(* not both empty.  The owner's fields are the trimmed cells under the     *)
(* header's labels; its share is the share cell read as a float, a comma   *)
(* taken for the decimal point, and 0.0 when the cell is empty or no       *)
(* number.  The owners keep the order of their rows.                       *)
(***************************************************************************)
C23_RowsToOwners ==
    (/\ pc = "done"
     /\ fn = "parse_docling_owners"
     /\ \E rows \in WordLists(DataRows, MaxDataRows) : arg = JoinWith(<<HeaderLine>> \o rows, <<"\n">>))
        => LET lines == splitlines(arg)
               header == RowOf(lines[1])
               giving == {n \in 2..Len(lines) : GivesOwner(header, RowOf(lines[n]))}
               place(n) == Cardinality({m \in giving : m <= n})
           IN /\ Len(ret) = Cardinality(giving)
              /\ \A n \in giving : EntryOf(header, RowOf(lines[n]), ret[place(n)])

\* a share with a thousands separator is no number, a share with a comma is
C23_Witness ==
    /\ pc = "done"
    /\ fn = "parse_docling_owners"
    /\ arg = JoinWith(<<HeaderLine, ThousandsRow, SecondOwnerLine>>, <<"\n">>)
    /\ Len(ret) = 2
    /\ ret[1]["Ποσοστό"] = Dec(0, 0)
    /\ ret[2]["Ποσοστό"] = Dec(505, 1)
    /\ ret[2]["Τύπος δικαιώματος"] = SecondOwnerCells[5]

\* a row without surname and role and a row with a cell too few: no owner
C23_WitnessSkipped ==
    /\ pc = "done"
    /\ fn = "parse_docling_owners"
    /\ arg = JoinWith(<<HeaderLine, BlankRow, ShortRow>>, <<"\n">>)
    /\ ret = <<>>

\* a role without a surname gives an owner, and so does a row with a cell
\* too many
C23_WitnessKept ==
    /\ pc = "done"
    /\ fn = "parse_docling_owners"
    /\ arg = JoinWith(<<HeaderLine, RoleOnlyRow, LongRow>>, <<"\n">>)
    /\ Len(ret) = 2
    /\ ret[1]["Επώνυμο/ία"] = <<>>
    /\ ret[2]["Ποσοστό"] = Dec(5, 0)

(***************************************************************************)
(* CoverageTableMapper on texts of coverage rows: up to MaxCoverageLines   *)
(* lines, each a coverage row, well formed or not, or a word.              *)
(***************************************************************************)
MaxCoverageLines == 3

\* the footprint label followed by the names of the 4 groups
GroupNamesLine == MarkdownRow(<<KeyFootprint>> \o cols)

\* the footprint label and 3 cells
FourCellLine == MarkdownRow(<<KeyFootprint, <<"1">>, <<"2">>, <<"3">>>>)

\* the footprint label and 5 cells
SixCellLine == MarkdownRow(<<KeyFootprint, <<"1">>, <<"2">>, <<"3">>, <<"4">>, <<"5">>>>)

\* 5 cells, the first no metric label
OtherLabelLine == MarkdownRow(<<<<"Σ", "ύ", "ν", "ο", "λ", "ο">>, <<"1">>, <<"2">>, <<"3">>, <<"4">>>>)

CoverageTableLines ==
    { CoverageLine, GroupNamesLine, BrokenCoverageLine, FourCellLine, SixCellLine,
      OtherLabelLine, <<"x">> }

CoverageTexts ==
    {JoinWith(ls, <<"\n">>) : ls \in WordLists(CoverageTableLines, MaxCoverageLines)}

InitCoverageTables ==
    /\ pc = "call"
    /\ fn = "none"
    /\ arg \in CoverageTexts
    /\ frame = None
    /\ ret = None

ParseDoclingCoverage ==
    /\ pc = "call"
    /\ pc' = "done"
    /\ fn' = "parse_docling_coverage"
    /\ ret' = parse_docling_coverage(arg)
    /\ UNCHANGED <<arg, frame>>

NextCoverageTables == ParseDoclingCoverage

SpecCoverageTables == InitCoverageTables /\ [][NextCoverageTables]_vars

\* the cell holds the first letters of a group name
ResemblesGroup(cell) ==
    \E label \in GroupLabels : \E p \in 1..Len(cell) :
        p + Len(label) - 1 <= Len(cell) /\ SubSeq(cell, p, p + Len(label) - 1) = label

\* a row of 5 cells that starts with a metric label
MetricCells(row) == Len(row) = 5 /\ \E n \in DOMAIN COVERAGE_KEYS : row[1] = COVERAGE_KEYS[n]

\* the places <<table, row>> of the rows of text
RowPlaces(text) ==
    {q \in (1..Len(splitlines(text))) \X (1..Len(splitlines(text))) :
        q[1] \in DOMAIN TablesOf(text) /\ q[2] \in DOMAIN TablesOf(text)[q[1]]}

\* cov holds, for the labels of the rows at the places taken and no other,
\* the numbers of the 4 cells of the last such row
RecordedFrom(text, taken, cov) ==
    LET tables == TablesOf(text)
        row(q) == tables[q[1]][q[2]]
        later(q, r) == r[1] > q[1] \/ (r[1] = q[1] /\ r[2] > q[2])
    IN /\ DOMAIN cov = {row(q)[1] : q \in taken}
       /\ \A q \in taken :
              (\A r \in taken : later(q, r) => row(r)[1] # row(q)[1])
              => cov[row(q)[1]] = [j \in 1..4 |-> parse_eu_number(row(q)[j + 1])]

\* The statement as the specification words it: a matching row with a
\* group name in its second cell is skipped wherever it stands.
C24_GuardAnywhere ==
    (pc = "done" /\ fn = "parse_docling_coverage")
        => RecordedFrom(arg,
               {q \in RowPlaces(arg) :
                   /\ MetricCells(TablesOf(arg)[q[1]][q[2]])
                   /\ ~ResemblesGroup(TablesOf(arg)[q[1]][q[2]][2])},
               ret)

(***************************************************************************)
(* C24: the values of a metric label come from the rows, in any table and  *)
(* at any position, that have exactly 5 cells and start with one of the 7  *)
(* metric labels; such a row is skipped for a group name in its second     *)
(* cell only when it is the first row of its table.  The values are the    *)
(* numbers of cells 2 to 5, None for a cell that is no number, and a later *)
(* row replaces an earlier one of the same label.                          *)
(***************************************************************************)
C24_GuardFirstRow ==
    (pc = "done" /\ fn = "parse_docling_coverage")
        => RecordedFrom(arg,
               {q \in RowPlaces(arg) :
                   /\ MetricCells(TablesOf(arg)[q[1]][q[2]])
                   /\ ~(q[2] = 1 /\ ResemblesGroup(TablesOf(arg)[q[1]][q[2]][2]))},
               ret)

\* the row of group names under a row of values: it replaces the values
C24_Witness ==
    /\ pc = "done"
    /\ fn = "parse_docling_coverage"
    /\ arg = JoinWith(<<CoverageLine, GroupNamesLine>>, <<"\n">>)
    /\ ret[KeyFootprint] = <<None, None, None, None>>

\* the row of group names as the first row of its table: skipped
C24_WitnessFirstRow ==
    /\ pc = "done"
    /\ fn = "parse_docling_coverage"
    /\ arg = JoinWith(<<GroupNamesLine, CoverageLine, BrokenCoverageLine>>, <<"\n">>)
    /\ ret[KeyFootprint] = <<Dec(100, 0), Dec(100, 0), Dec(955, 1), Dec(955, 1)>>
    /\ ret[KeyFloors] = <<None, Dec(2, 0), None, None>>


(***************************************************************************)
(* The matching match_owners builds, read from its local variables.        *)
(***************************************************************************)
\* how many owners of list have the value v under the function f
Having(list, f(_), v) == Cardinality({i \in DOMAIN list : f(list[i]) = v})

\* the values the owners of the lists a and b have under f
ValuesOf(a, b, f(_)) == {f(a[i]) : i \in DOMAIN a} \cup {f(b[j]) : j \in DOMAIN b}

\* the owners consumed between the lists (gt, pred) and what is left of them
\* (gt_rest, pred_rest) pair up one to one by their value under f: of each
\* value as many are consumed on one side as on the other
PairedBy(gt, pred, gt_rest, pred_rest, f(_)) ==
    \A v \in ValuesOf(gt, pred, f) :
        /\ Having(gt_rest, f, v) <= Having(gt, f, v)
        /\ Having(gt, f, v) - Having(gt_rest, f, v)
               = Having(pred, f, v) - Having(pred_rest, f, v)

(***************************************************************************)
(* C25: match_owners builds a one-to-one matching in two phases.  After    *)
(* phase 1 the owners consumed pair up by identity key and tp counts the   *)
(* pairs; phase 2 works on what phase 1 left, the owners it consumes pair  *)
(* up by signature and none of them has the empty signature; in the        *)
(* result tp + fn is the number of ground-truth owners and tp + fp the     *)
(* number of predicted owners.                                             *)
(***************************************************************************)
C25_OneToOne ==
    /\ (pc = "phase2" /\ fn = "match_owners")
           => /\ PairedBy(arg[1], arg[2], frame.gt_remaining, frame.pred_remaining, key)
              /\ Len(frame.gt_remaining) = Len(arg[1]) - frame.tp
              /\ Len(frame.pred_remaining) = Len(arg[2]) - frame.tp
              /\ Cardinality(frame.used_pred) = frame.tp
              /\ frame.used_pred \subseteq DOMAIN arg[2]
    /\ (pc = "done" /\ fn = "match_owners")
           => /\ PairedBy(arg[1], arg[2], frame.gt1, frame.pred1, key)
              /\ PairedBy(frame.gt1, frame.pred1, frame.gt_remaining,
                          frame.pred_remaining, signature)
              /\ Having(frame.gt1, signature, {}) = Having(frame.gt_remaining, signature, {})
              /\ Having(frame.pred1, signature, {})
                     = Having(frame.pred_remaining, signature, {})
              /\ Cardinality(frame.matched2) = Cardinality(frame.used_pred2)
              /\ Len(frame.gt_remaining) = Len(frame.gt1) - Cardinality(frame.matched2)
              /\ Len(frame.pred_remaining) = Len(frame.pred1) - Cardinality(frame.used_pred2)
              /\ Len(frame.gt1) + frame.tp - Cardinality(frame.matched2) = Len(arg[1])
              /\ Len(frame.pred1) + frame.tp - Cardinality(frame.matched2) = Len(arg[2])
              /\ ret.tp + ret.fn = Len(arg[1])
              /\ ret.tp + ret.fp = Len(arg[2])

\* one pair matched by key in phase 1, one by signature in phase 2
C25_Witness ==
    /\ pc = "done"
    /\ fn = "match_owners"
    /\ arg[1] = <<Owner(Pappas, Giorgos), Owner(Giorgos, Pappas)>>
    /\ arg[2] = <<Owner(Giorgos, Pappas), Owner(Pappas \o <<" ">> \o Giorgos, <<>>)>>
    /\ frame.gt1 = <<Owner(Pappas, Giorgos)>>
    /\ frame.used_pred2 = {1}
    /\ ret = [tp |-> 2, fp |-> 0, fn |-> 0]

\* owners without name on both sides: matched by key in phase 1, and the
\* one left over is not matched in phase 2
C25_WitnessEmpty ==
    /\ pc = "done"
    /\ fn = "match_owners"
    /\ arg[1] = <<Owner(<<>>, <<>>), Owner(<<>>, <<>>)>>
    /\ arg[2] = <<Owner(<<>>, <<>>), Owner(Pappas, Giorgos)>>
    /\ frame.gt1 = <<Owner(<<>>, <<>>)>>
    /\ frame.matched2 = {}
    /\ ret = [tp |-> 1, fp |-> 1, fn |-> 1]


(***************************************************************************)
(* The owner metrics of a report entry, against its counts.                *)
(***************************************************************************)
\* x is the ratio n / d, and 0 for d = 0
IsRatio(x, n, d) ==
    IF d = 0 THEN Numer(x) = 0 ELSE Numer(x) * d = n * Denom(x)

\* x is 2*p*r/(p+r) for the precision p = tp/(tp+fp) and the recall
\* r = tp/(tp+fn), and 0 when both are 0; for tp > 0 the two are tp over a
\* positive number
IsF1(x, tp, fp, fn_) ==
    IF tp = 0 THEN Numer(x) = 0
    ELSE Numer(x) * (tp * (tp + fn_) + tp * (tp + fp)) = 2 * tp * tp * Denom(x)

\* the three owner metrics of the entry m are those of its counts
OwnerMetrics(m) ==
    /\ IsRatio(m.owners_precision, m.owners_tp, m.owners_tp + m.owners_fp)
    /\ IsRatio(m.owners_recall, m.owners_tp, m.owners_tp + m.owners_fn)
    /\ IsF1(m.owners_f1, m.owners_tp, m.owners_fp, m.owners_fn)

(***************************************************************************)
(* C26: in every per-document entry of the report precision is             *)
(* tp/(tp+fp), recall is tp/(tp+fn) and F1 is 2*precision*recall /         *)
(* (precision+recall), each 0 when its denominator is 0, so that a         *)
(* document with no owner on either side scores 0 three times; the         *)
(* aggregate's three metrics are the same functions of the aggregate's     *)
(* counts.  The values are exact ratios, not their floating-point          *)
(* roundings.                                                              *)
(***************************************************************************)
C26_OwnerMetrics ==
    (pc = "done" /\ fn = "evaluate" /\ ~IsRaised(ret))
        => \A e \in {"pdfplumber", "docling"} :
               /\ OwnerMetrics(ret[e].aggregate)
               /\ \A s \in DOMAIN ret[e].per_stem :
                      LET m == ret[e].per_stem[s]
                      IN /\ OwnerMetrics(m)
                         /\ (m.owners_tp + m.owners_fp = 0 /\ m.owners_tp + m.owners_fn = 0)
                                => /\ m.owners_precision = Dec(0, 0)
                                   /\ m.owners_recall = Dec(0, 0)
                                   /\ m.owners_f1 = Dec(0, 0)

\* a document with no owner in its row and none in its record, and one with
\* an owner in its row and none in its record
C26_Witness ==
    /\ pc = "done"
    /\ fn = "evaluate"
    /\ ~IsRaised(ret)
    /\ DOMAIN ret.docling.per_stem = {StemA, StemB}
    /\ ret.docling.per_stem[StemA].owners_tp = 0
    /\ ret.docling.per_stem[StemA].owners_fn = 0
    /\ ret.docling.per_stem[StemA].owners_fp = 0
    /\ ret.docling.per_stem[StemA].owners_f1 = Dec(0, 0)
    /\ ret.docling.per_stem[StemB].owners_fn = 2
    /\ ret.docling.aggregate.owners_recall = [num |-> 0, den |-> 2]
    /\ ret.docling.aggregate.owners_f1 = Dec(0, 0)

\* the owner of the row found in the record: the three metrics are 1
C26_WitnessOne ==
    /\ pc = "done"
    /\ fn = "evaluate"
    /\ ~IsRaised(ret)
    /\ StemA \in DOMAIN ret.docling.per_stem
    /\ ret.docling.per_stem[StemA].owners_tp = 1
    /\ ret.docling.per_stem[StemA].owners_precision = [num |-> 1, den |-> 1]
    /\ ret.docling.per_stem[StemA].owners_f1 = [num |-> 2, den |-> 2]


(***************************************************************************)
(* The coverage cells of a document that have a ground truth, read from    *)
(* the ground-truth row without the evaluator's loop.                      *)
(***************************************************************************)
\* the 28 cells in the order of lines 317-318
CellOrder == [n \in 1..28 |-> <<GROUPS[(n - 1) \div 7 + 1], COVERAGE_KEYS[((n - 1) % 7) + 1]>>]

\* the first column of the row that belongs to the cell c, 0 without one;
\* headers are the normalised headers of the row
ColumnOf(headers, c) ==
    LET at == {i \in DOMAIN headers : headers[i] = ColHeaders[c[1]][c[2]]}
    IN IF at = {} THEN 0 ELSE Min(at)

\* the ground truth of the column col is absent: no column, no value, an
\* empty or an unparsable value
Absent(gt, col) ==
    col = 0 \/ ~gt[col].some \/ Strip(gt[col].v) = <<>> \/ parse_float(gt[col].v) = None

\* the ground truth of cell c of the row gt is absent
GtAbsent(gt, c) == Absent(gt, ColumnOf(NormHeaders(gt), c))

\* the number the record data holds for cell c, None without one
Predicted(data, c) ==
    DictGet(DictGet(DictGet(data, "Στοιχεία Διαγράμματος Κάλυψης", <<>>), c[1], <<>>), c[2], None)

\* |predicted - ground truth| of the cells that are compared, those with a
\* ground truth and a predicted number, in order
ComparedDiffs(gt, data) ==
    LET headers == NormHeaders(gt)
        columns == [n \in 1..28 |-> ColumnOf(headers, CellOrder[n])]
        compared == SelectSeq([n \in 1..28 |-> n],
                        LAMBDA n : ~Absent(gt, columns[n]) /\ IsFloat(Predicted(data, CellOrder[n])))
    IN [i \in DOMAIN compared |->
           DecAbs(DecAdd(Predicted(data, CellOrder[compared[i]]), -1,
                         parse_float(gt[columns[compared[i]]].v)))]

\* the differences of the documents of stems that have an entry, in order
RECURSIVE AllDiffs(_, _, _, _)
AllDiffs(stems, gt_rows, structured_dir, e) ==
    IF stems = <<>> THEN <<>>
    ELSE LET s == Head(stems)
             data == load_structured(structured_dir, s, e)
             rest == AllDiffs(Tail(stems), gt_rows, structured_dir, e)
         IN IF s \in DOMAIN gt_rows /\ ~Falsy(data)
            THEN ComparedDiffs(gt_rows[s], data) \o rest
            ELSE rest

\* how many of the differences are 0; the numbers of the model differ by 0
\* or by more than 1e-6
Zeros(diffs) == Cardinality({i \in DOMAIN diffs : diffs[i] = Dec(0, 0)})

(***************************************************************************)
(* C27: a coverage cell whose ground truth is absent (no column, no value, *)
(* an empty or an unparsable value) is never compared, whatever the record *)
(* predicts for it: the exact count, the cell total and the MAE of a       *)
(* document, and the aggregate's counts, MAE and RMSE, are those of the    *)
(* cells with a ground truth and a predicted number alone.  A ground truth *)
(* of 0 is a ground truth: the cell is compared and is exact for a         *)
(* predicted 0.0.                                                          *)
(***************************************************************************)
C27_AbsenceNotZero ==
    (pc = "done" /\ fn = "evaluate" /\ ~IsRaised(ret))
        => \A e \in {"pdfplumber", "docling"} :
               /\ \A s \in DOMAIN ret[e].per_stem :
                      LET m == ret[e].per_stem[s]
                          diffs == ComparedDiffs(frame.gt_rows[s], load_structured(arg[2], s, e))
                      IN /\ m.coverage_total_cells = Len(diffs)
                         /\ m.coverage_exact_cells = Zeros(diffs)
                         /\ m.coverage_mae = Mean(diffs)
               /\ LET a == ret[e].aggregate
                      diffs == AllDiffs(frame.stems, frame.gt_rows, arg[2], e)
                  IN /\ a.coverage_total_cells = Len(diffs)
                     /\ a.coverage_exact_cells = Zeros(diffs)
                     /\ a.coverage_mae = Mean(diffs)
                     /\ a.coverage_rmse = RootMeanSquare(diffs)

\* the row of B with an unparsable cell, an empty cell and the cell 1,
\* against the record of 28 times 0.0: one cell is compared
C27_Witness ==
    /\ pc = "done"
    /\ fn = "evaluate"
    /\ ~IsRaised(ret)
    /\ StemB \in DOMAIN frame.gt_rows
    /\ frame.gt_rows[StemB] = RowB
    /\ arg[2][<<StemB, "docling">>] = Json(RecordZero)
    /\ StemB \in DOMAIN ret.docling.per_stem
    /\ GtAbsent(RowB, <<ColExisting, KeyFootprint>>)
    /\ GtAbsent(RowB, <<ColTotal, KeyFloors>>)
    /\ GtAbsent(RowB, <<ColLegalized, KeyFootprint>>)
    /\ Predicted(RecordZero, <<ColExisting, KeyFootprint>>) = Dec(0, 0)
    /\ ret.docling.per_stem[StemB].coverage_total_cells = 1
    /\ ret.docling.per_stem[StemB].coverage_exact_cells = 0
    /\ ret.docling.per_stem[StemB].coverage_mae = [sum |-> Dec(1, 0), over |-> 1]

\* the row of B with the cells 0 and 0,00 against the record of 28 times
\* 0.0: both are compared and exact
C27_WitnessZero ==
    /\ pc = "done"
    /\ fn = "evaluate"
    /\ ~IsRaised(ret)
    /\ StemB \in DOMAIN frame.gt_rows
    /\ frame.gt_rows[StemB] = RowZero
    /\ arg[2][<<StemB, "docling">>] = Json(RecordZero)
    /\ StemB \in DOMAIN ret.docling.per_stem
    /\ ret.docling.per_stem[StemB].coverage_total_cells = 2
    /\ ret.docling.per_stem[StemB].coverage_exact_cells = 2
    /\ ret.docling.per_stem[StemB].coverage_mae = [sum |-> Dec(0, 0), over |-> 2]


(***************************************************************************)
(* The aggregate of a report against its per-document entries.             *)
(***************************************************************************)
\* the sum of field k over the entries of the map per_stem
RECURSIVE SumOver(_, _, _)
SumOver(per_stem, stems, k) ==
    IF stems = {} THEN 0
    ELSE LET s == CHOOSE s \in stems : TRUE
         IN per_stem[s][k] + SumOver(per_stem, stems \ {s}, k)

\* 0 <= x <= 1 for a ratio x
InUnit(x) == 0 <= Numer(x) /\ Numer(x) <= Denom(x)

(***************************************************************************)
(* C28: for every list of document ids, lists that name a document twice   *)
(* included, the aggregate is the sum of the per-document entries: owner   *)
(* tp, fp, fn and the coverage exact and total counts are the sums of the  *)
(* entries' values, the code-match count is the number of entries whose    *)
(* kaek_match is true, and the two ratios lie between 0 and 1.  evaluate   *)
(* does not do this: the counters of lines 286-290 are increased once for  *)
(* each occurrence of a document in the list, while per_stem (line 343)    *)
(* keeps one entry for it.                                                 *)
(***************************************************************************)
C28_AggregateIsSum ==
    (pc = "done" /\ fn = "evaluate" /\ ~IsRaised(ret))
        => \A e \in {"pdfplumber", "docling"} :
               LET per_stem == ret[e].per_stem
                   a == ret[e].aggregate
                   Sum(k) == SumOver(per_stem, DOMAIN per_stem, k)
               IN /\ a.owners_tp = Sum("owners_tp")
                  /\ a.owners_fp = Sum("owners_fp")
                  /\ a.owners_fn = Sum("owners_fn")
                  /\ a.coverage_exact_cells = Sum("coverage_exact_cells")
                  /\ a.coverage_total_cells = Sum("coverage_total_cells")
                  /\ a.kaek_exact = Cardinality({s \in DOMAIN per_stem : per_stem[s].kaek_match})
                  /\ InUnit(a.kaek_exact_ratio)
                  /\ InUnit(a.coverage_exact_ratio)

\* the list A, A with the row and the record of A that agree on code and
\* owner: one entry, and an aggregate that counts it twice
C28_CountedTwice ==
    /\ pc = "done"
    /\ fn = "evaluate"
    /\ ~IsRaised(ret)
    /\ frame.stems = <<StemA, StemA>>
    /\ StemA \in DOMAIN frame.gt_rows
    /\ frame.gt_rows[StemA] = RowA
    /\ arg[2][<<StemA, "docling">>] = Json(RecordFull)
    /\ DOMAIN ret.docling.per_stem = {StemA}
    /\ ret.docling.per_stem[StemA].kaek_match
    /\ ret.docling.per_stem[StemA].owners_tp = 1
    /\ ret.docling.aggregate.stems_evaluated = 1
    /\ ret.docling.aggregate.kaek_exact = 2
    /\ ret.docling.aggregate.kaek_exact_ratio = [num |-> 2, den |-> 1]
    /\ ret.docling.aggregate.owners_tp = 2


(***************************************************************************)
(* Reorderings of the owner lists, and the matchings between them.         *)
(***************************************************************************)
\* the lists with the elements of list in another order
Reorderings(list) ==
    { [i \in DOMAIN list |-> list[p[i]]] :
      p \in {q \in [DOMAIN list -> DOMAIN list] : \A i, j \in DOMAIN list : q[i] = q[j] => i = j} }

\* the owners g and p may be matched: the same identity key, or the same
\* signature with a token in it
Matchable(g, p) ==
    key(g) = key(p) \/ (signature(g) = signature(p) /\ signature(g) # {})

\* the one-to-one matchings between the positions of gt and pred
Matchings(gt, pred) ==
    { m \in SUBSET ((DOMAIN gt) \X (DOMAIN pred)) :
        /\ \A a, b \in m : (a[1] = b[1] \/ a[2] = b[2]) => a = b
        /\ \A a \in m : Matchable(gt[a[1]], pred[a[2]]) }

\* the size of a largest matching
MaximumMatching(gt, pred) ==
    CHOOSE n \in 0..Len(gt) :
        /\ \E m \in Matchings(gt, pred) : Cardinality(m) = n
        /\ \A m \in Matchings(gt, pred) : Cardinality(m) <= n

(***************************************************************************)
(* C29: the counts match_owners returns do not depend on the order of the  *)
(* lists: every reordering of the ground-truth list and of the predicted   *)
(* list gives the same (tp, fp, fn); and tp is the size of a largest       *)
(* one-to-one matching between owners with the same identity key or the    *)
(* same non-empty signature.                                               *)
(***************************************************************************)
C29_OrderIndependent ==
    (pc = "done" /\ fn = "match_owners")
        => /\ \A gt \in Reorderings(arg[1]) : \A pred \in Reorderings(arg[2]) :
                  match_owners(gt, pred) = ret
           /\ ret.tp = MaximumMatching(arg[1], arg[2])

\* the first ground-truth owner can only be matched by signature and the
\* second by key, to the first predicted owner, whom the first could take
\* by signature: two matches in either order
C29_Witness ==
    /\ pc = "done"
    /\ fn = "match_owners"
    /\ arg[1] = <<Owner(Pappas \o <<" ">> \o Giorgos, <<>>), Owner(Giorgos, Pappas)>>
    /\ arg[2] = <<Owner(Giorgos, Pappas), Owner(Pappas, Giorgos)>>
    /\ Cardinality(Reorderings(arg[1])) = 2
    /\ Cardinality(Matchings(arg[1], arg[2])) = 7
    /\ frame.used_pred2 = {1}
    /\ ret = [tp |-> 2, fp |-> 0, fn |-> 0]


(***************************************************************************)
(* The two number parsers on the same string.                              *)
(***************************************************************************)
\* the strings over '-', digits, '.' and ','
PlainNumberString(s) == Range(s) \subseteq Digits \cup {"-", ".", ","}

\* the result of the other parser on the argument of the call
OtherParser ==
    IF fn = "parse_eu_number" THEN parse_float(arg) ELSE parse_eu_number(arg)

(***************************************************************************)
(* C30: the two number parsers agree: for every string over '-', digits,   *)
(* '.' and ',' parse_eu_number and parse_float return the same value, or   *)
(* both None.  They do not: parse_eu_number takes one leading '-' as the   *)
(* sign (lines 28-29) and float() accepts a second sign in what is left,   *)
(* while parse_float hands the string with both signs to float().          *)
(***************************************************************************)
C30_ParsersAgree ==
    (pc = "done" /\ fn \in {"parse_eu_number", "parse_float"} /\ PlainNumberString(arg))
        => ret = OtherParser

\* the parsers agree on the strings with at most one '-'
C30_AgreeOneSign ==
    (pc = "done" /\ fn \in {"parse_eu_number", "parse_float"} /\ PlainNumberString(arg)
         /\ Count(arg, "-") <= 1)
        => ret = OtherParser

\* "--1": 1.0 from parse_eu_number, None from parse_float
C30_Diverges ==
    /\ pc = "done"
    /\ fn = "parse_eu_number"
    /\ arg = <<"-", "-", "1">>
    /\ ret = Dec(1, 0)
    /\ parse_float(arg) = None

\* "-1,1": both parsers give -1.1
C30_WitnessAgree ==
    /\ pc = "done"
    /\ fn = "parse_float"
    /\ arg = <<"-", "1", ",", "1">>
    /\ ret = Dec(-11, 1)
    /\ parse_eu_number(arg) = ret

=============================================================================
